---- MODULE Spec2Model ----
(***************************************************************************)
(* Model of the ESG chatbot frontend.                                      *)
(*                                                                         *)
(* The data grid (frontend/src/components/DataTable.js): the component     *)
(* state kept in React useState hooks, the derived sorted / truncated /    *)
(* paginated views and the user operations (sort click, page navigation,   *)
(* cell click, closing the expanded cell, export) together with the        *)
(* replacement of the `data` prop by the parent component.  The file an    *)
(* export hands to the browser is observed in the variable download.       *)
(*                                                                         *)
(* The chat (frontend/src/hooks/useChat.js and the input box of            *)
(* frontend/src/pages/ChatPage.js): the message list, the loading flag,    *)
(* the error text, the API requests in flight and the clock that gives     *)
(* the messages their ids.                                                 *)
(*                                                                         *)
(* The database explorer (frontend/src/pages/DatabaseExplorer.js): the     *)
(* table list, the selected table and its data, the two loading flags and  *)
(* the error, with the API calls of loadTables, loadTableData and          *)
(* handleExportFullTable and the files its export buttons make.            *)
(*                                                                         *)
(* Cell values are a tagged variant {null, bool, num, str, rep}.  Strings  *)
(* are sequences of one-character strings; rep is the string of k copies   *)
(* of "x".  Numbers are non-negative integers.                             *)
(*                                                                         *)
(* What the JavaScript runtime decides, and the code does not, is the      *)
(* variable runtime: the default locale, which localeCompare and           *)
(* toLocaleString follow, and the implementation of Array.prototype.sort,  *)
(* either TimSort (V8 from version 7.0: for fewer than 64 elements one     *)
(* natural run followed by a binary insertion sort) or the insertion sort  *)
(* and quicksort of the V8 versions before it.                             *)
(***************************************************************************)
EXTENDS Integers, Sequences, FiniteSets, TLC

VARIABLES data, maxRows, showExport, sortColumn, sortDirection, currentPage, expandedCell,
          download,
          messages, isLoading, error, requests, now, inputText,
          explorer, apiCalls,
          runtime

\* the props and the useState values of the data grid
gridVars ==
  <<data, maxRows, showExport, sortColumn, sortDirection, currentPage, expandedCell>>

\* the useState values of useChat and ChatPage, the requests awaiting their
\* reply and the value of Date.now()
chatVars == <<messages, isLoading, error, requests, now, inputText>>

\* the useState values of DatabaseExplorer (one record, a field for each) and
\* the calls it has made to the API (getDatabaseInfo, getTableInfo and
\* exportData), each pending, resolved or rejected
explorerVars == <<explorer, apiCalls>>

\* the JavaScript runtime the page is loaded in: its default locale and its
\* implementation of Array.prototype.sort; it stays what it is
vars == <<gridVars, download, chatVars, explorerVars, runtime>>

----------------------------------------------------------------------------
(* Bounds of the model *)

\* longest dataset of the sort specification
MaxLen == 4
\* longest string of the exhaustive CSV fields
MaxField == 2
\* longest message list of the chat, replies still awaited counted in
MaxMessages == 4
\* latest value of Date.now()
MaxTime == 1
\* most pages of a dataset of the pagination specification
MaxPagerPages == 9
\* cap on currentPage for the Next button past the last page
MaxPage == 5
\* most getTableInfo calls of the database explorer
MaxCalls == 3
\* most exportData calls of the database explorer
MaxExports == 1

----------------------------------------------------------------------------
(* Cell values *)

NullV == [null |-> TRUE]

NumV(k) == [num |-> k]

\* true and false
BoolV(t) == [bool |-> t]

\* the string of the characters q (not a run of "x" alone, which is a RepV)
StrV(q) == [str |-> q]

\* the string of k copies of the character "x"
RepV(k) == [rep |-> k]

\* aVal == null  (true of null and of undefined)
IsNullish(v) == "null" \in DOMAIN v

\* typeof value === 'number'
IsNumber(v) == "num" \in DOMAIN v

\* typeof value === 'boolean'
IsBoolean(v) == "bool" \in DOMAIN v

\* typeof value === 'string'
IsString(v) == "str" \in DOMAIN v \/ "rep" \in DOMAIN v

\* the characters of a string value
Chars(v) == IF "rep" \in DOMAIN v THEN [i \in 1..v.rep |-> "x"] ELSE v.str

DigitChars == <<"0", "1", "2", "3", "4", "5", "6", "7", "8", "9">>

LowerChars == <<"a", "b", "e", "f", "l", "r", "s", "t", "u", "x">>

UpperChars == <<"A", "B", "E", "F", "L", "R", "S", "T", "U", "X">>

IsDigit(c) == \E d \in 1..10 : DigitChars[d] = c

DigitVal(c) == (CHOOSE d \in 1..10 : DigitChars[d] = c) - 1

\* the keys of a row.  The field keyOrder of a row is no key of it: it holds
\* the order in which the keys of the row were written (a record has no
\* order of its own); a row without it has its keys written in alphabetical
\* order.
OwnKeys(row) == DOMAIN row \ {"keyOrder"}

\* row[column]: a key the record does not have reads as undefined
Get(row, column) ==
  IF column \in OwnKeys(row) THEN row[column] ELSE NullV

RECURSIVE NumToStr(_)
\* String(k) for a non-negative integer
NumToStr(k) ==
  IF k < 10 THEN <<DigitChars[k + 1]>>
  ELSE NumToStr(k \div 10) \o <<DigitChars[(k % 10) + 1]>>

\* String(value) for a non-null value
ToStr(v) ==
  IF IsNumber(v) THEN NumToStr(v.num)
  ELSE IF IsBoolean(v)
  THEN (IF v.bool THEN <<"t", "r", "u", "e">> ELSE <<"f", "a", "l", "s", "e">>)
  ELSE Chars(v)

RECURSIVE DigitPrefixLen(_, _)
\* number of leading decimal digits of s from position i on
DigitPrefixLen(s, i) ==
  IF i > Len(s) \/ ~IsDigit(s[i]) THEN 0 ELSE 1 + DigitPrefixLen(s, i + 1)

RECURSIVE DigitsToNum(_, _)
\* value of the first k characters of s, all digits
DigitsToNum(s, k) ==
  IF k = 0 THEN 0 ELSE 10 * DigitsToNum(s, k - 1) + DigitVal(s[k])

\* number of characters of the exponent part of s at position i: e or E
\* followed by at least one digit, 0 when there is none
ExponentLen(s, i) ==
  IF i <= Len(s) /\ s[i] \in {"e", "E"} /\ DigitPrefixLen(s, i + 1) > 0
  THEN 1 + DigitPrefixLen(s, i + 1)
  ELSE 0

\* number of characters of the longest prefix of s that is a decimal literal:
\* digits, then an exponent part if there is one
LiteralLen(s) ==
  IF DigitPrefixLen(s, 1) = 0 THEN 0
  ELSE DigitPrefixLen(s, 1) + ExponentLen(s, DigitPrefixLen(s, 1) + 1)

RECURSIVE Pow10(_)
Pow10(n) == IF n = 0 THEN 1 ELSE 10 * Pow10(n - 1)

\* value of the literal of k digits and an exponent part of e characters
LiteralValue(s, k, e) ==
  IF e = 0 THEN DigitsToNum(s, k)
  ELSE DigitsToNum(s, k) * Pow10(DigitsToNum(SubSeq(s, k + 2, k + e), e - 1))

\* parseFloat(value): the value of the longest prefix of String(value) that
\* is a decimal literal, NaN if there is none.  The strings of the model are
\* made of digits and letters: no sign, no decimal point, no white space.
parseFloat(v) ==
  LET str == ToStr(v)
      k   == DigitPrefixLen(str, 1)
  IN  IF k = 0 THEN [nan |-> TRUE, v |-> 0]
      ELSE [nan |-> FALSE, v |-> LiteralValue(str, k, ExponentLen(str, k + 1))]

LowerChar(c) ==
  IF \E i \in 1..Len(UpperChars) : UpperChars[i] = c
  THEN LowerChars[CHOOSE i \in 1..Len(UpperChars) : UpperChars[i] = c]
  ELSE c

\* String.prototype.toLowerCase
toLowerCase(str) == [i \in 1..Len(str) |-> LowerChar(str[i])]

\* the locales of the model, each the default locale of some runtime: the
\* collation of en-US, de-DE, en-IN and fr-FR orders the characters of the
\* model as the root collation does; nb-NO, az-AZ, haw-US, cy-GB and sq-AL
\* tailor it; the number formats differ in the grouping of the digits
Locales ==
  {"en-US", "de-DE", "en-IN", "fr-FR", "nb-NO", "az-AZ", "haw-US", "cy-GB", "sq-AL"}

\* the implementations of Array.prototype.sort: TimSort (V8 from version 7.0),
\* and the insertion sort and quicksort of the V8 versions before it
SortEngines == {"TimSort", "QuickSort"}

\* a runtime with a default locale and an implementation of the sort
RuntimeOf(locale, engine) == [locale |-> locale, sort |-> engine]

\* every runtime of the model
Runtimes == {RuntimeOf(locale, engine) : locale \in Locales, engine \in SortEngines}

\* a runtime of the locale en-US with TimSort
DefaultRuntime == RuntimeOf("en-US", "TimSort")

\* the runtimes of the locale en-US
EnglishRuntimes == {RuntimeOf("en-US", engine) : engine \in SortEngines}

\* one runtime for each collation of the model and each sort
CollationRuntimes ==
  {RuntimeOf(locale, engine) :
     locale \in {"en-US", "nb-NO", "az-AZ", "haw-US", "cy-GB", "sq-AL"},
     engine \in SortEngines}

\* two runtimes that differ in the order of "true" and "xxx" and in the sort
GridRuntimes == {DefaultRuntime, RuntimeOf("az-AZ", "QuickSort")}

\* the lower-case letters of the model in the order of the alphabet of the
\* locale: x follows h in az-AZ; the vowels a, e, u come before the other
\* letters in haw-US
LetterOrder(locale) ==
  IF locale = "az-AZ" THEN <<"a", "b", "e", "f", "x", "l", "r", "s", "t", "u">>
  ELSE IF locale = "haw-US" THEN <<"a", "e", "u", "b", "f", "l", "r", "s", "t", "x">>
  ELSE LowerChars

\* the lower-case letters that, written twice, are one letter of the alphabet
\* of the locale: aa (for å) in nb-NO, ff and ll in cy-GB, ll and rr in sq-AL
DoubleLetters(locale) ==
  IF locale = "nb-NO" THEN {"a"}
  ELSE IF locale = "cy-GB" THEN {"f", "l"}
  ELSE IF locale = "sq-AL" THEN {"l", "r"}
  ELSE {}

\* position of a lower-case letter in the alphabet of the locale
LetterIndex(letter, locale) ==
  CHOOSE i \in 1..Len(LetterOrder(locale)) : LetterOrder(locale)[i] = letter

\* the characters at i and i + 1 are a double letter of the locale written
\* aa, Aa or AA
IsDoubleAt(str, i, locale) ==
  /\ i < Len(str)
  /\ LowerChar(str[i]) \in DoubleLetters(locale)
  /\ LowerChar(str[i + 1]) = LowerChar(str[i])
  /\ (str[i] # LowerChar(str[i]) \/ str[i + 1] = LowerChar(str[i + 1]))

\* primary collation weight of a character: digits before letters, case
\* ignored, the letters in the order of the alphabet of the locale
PrimaryWeight(c, locale) ==
  IF IsDigit(c) THEN DigitVal(c) ELSE 10 + 2 * LetterIndex(LowerChar(c), locale)

\* primary collation weight of a double letter: after the last letter for aa
\* (å), else between its letter and the next one
DoublePrimaryWeight(c, locale) ==
  IF locale = "nb-NO" THEN 11 + 2 * Len(LowerChars)
  ELSE 11 + 2 * LetterIndex(LowerChar(c), locale)

\* tertiary collation weight: lower case before upper case
TertiaryWeight(c) == IF LowerChar(c) = c THEN 0 ELSE 1

\* the collation element of a character
SingleElement(c, locale) ==
  [primary |-> PrimaryWeight(c, locale), tertiary |-> TertiaryWeight(c)]

\* the collation element of a double letter written with the characters c, d
DoubleElement(c, d, locale) ==
  [primary |-> DoublePrimaryWeight(c, locale),
   tertiary |-> TertiaryWeight(c) + TertiaryWeight(d)]

RECURSIVE ElementsFrom(_, _, _)
\* the collation elements of str from position i on: the double letters are
\* read from left to right, so that in aaa the first two characters are one
\* letter
ElementsFrom(str, i, locale) ==
  IF i > Len(str) THEN <<>>
  ELSE IF IsDoubleAt(str, i, locale)
  THEN <<DoubleElement(str[i], str[i + 1], locale)>> \o ElementsFrom(str, i + 2, locale)
  ELSE <<SingleElement(str[i], locale)>> \o ElementsFrom(str, i + 1, locale)

\* the collation elements of a string: its characters in a locale without
\* double letters, else one element for each character and each double letter
Elements(str, locale) ==
  IF DoubleLetters(locale) = {} THEN str ELSE ElementsFrom(str, 1, locale)

\* collation weight at a level (1 primary, 3 tertiary) of the k-th of the
\* elements of a string
Weight(elements, k, level, locale) ==
  IF DoubleLetters(locale) = {}
  THEN (IF level = 1 THEN PrimaryWeight(elements[k], locale)
        ELSE TertiaryWeight(elements[k]))
  ELSE (IF level = 1 THEN elements[k].primary ELSE elements[k].tertiary)

\* the positions at which x and y both have an element and the two elements
\* are different ones of different weights
Differences(level, x, y, locale) ==
  {k \in 1..Len(x) :
     /\ k <= Len(y)
     /\ x[k] # y[k]
     /\ Weight(x, k, level, locale) # Weight(y, k, level, locale)}

\* the order of the elements of x and y at the first of the positions ks
OrderAtFirst(level, x, y, ks, locale) ==
  IF \E k \in ks :
       /\ \A j \in ks : k <= j
       /\ Weight(x, k, level, locale) < Weight(y, k, level, locale)
  THEN -1 ELSE 1

\* order of x and y by their weights at one level: the first difference
\* decides, and a proper prefix comes first
CompareWeights(level, x, y, locale) ==
  IF Differences(level, x, y, locale) # {}
  THEN OrderAtFirst(level, x, y, Differences(level, x, y, locale), locale)
  ELSE IF Len(x) < Len(y) THEN -1
  ELSE IF Len(x) > Len(y) THEN 1
  ELSE 0

\* the tertiary level decides when the primary level does not
BreakTie(primary, x, y, locale) ==
  IF primary # 0 THEN primary ELSE CompareWeights(3, x, y, locale)

\* x.localeCompare(y) in a locale; the elements of the two strings are bound
\* to their values before they are compared
localeCompareIn(x, y, locale) ==
  CHOOSE order \in
    {BreakTie(CompareWeights(1, xs, ys, locale), xs, ys, locale) :
       xs \in {Elements(x, locale)}, ys \in {Elements(y, locale)}} : TRUE

\* String.prototype.localeCompare without a locale argument: the default
\* locale of the runtime decides
localeCompare(x, y) == localeCompareIn(x, y, runtime.locale)

----------------------------------------------------------------------------
(* The comparator passed to sortedData.sort *)

\* every pair compared by its lower-cased string form, numbers included
compareParsedStringOnly(aNum, bNum, aVal, bVal, direction) ==
  IF direction = "asc"
  THEN localeCompare(toLowerCase(ToStr(aVal)), toLowerCase(ToStr(bVal)))
  ELSE localeCompare(toLowerCase(ToStr(bVal)), toLowerCase(ToStr(aVal)))

\* two non-null values: by number when both parse, else by lower-cased string
compareParsed(aNum, bNum, aVal, bVal, direction) ==
  IF ~aNum.nan /\ ~bNum.nan
  THEN (IF direction = "asc" THEN aNum.v - bNum.v ELSE bNum.v - aNum.v)
  ELSE IF direction = "asc"
  THEN localeCompare(toLowerCase(ToStr(aVal)), toLowerCase(ToStr(bVal)))
  ELSE localeCompare(toLowerCase(ToStr(bVal)), toLowerCase(ToStr(aVal)))

\* nulls placed by direction: last when ascending, first when descending
compareValuesNullsByDirection(aVal, bVal, direction) ==
  IF IsNullish(aVal) THEN (IF direction = "asc" THEN 1 ELSE -1)
  ELSE IF IsNullish(bVal) THEN (IF direction = "asc" THEN -1 ELSE 1)
  ELSE compareParsed(parseFloat(aVal), parseFloat(bVal), aVal, bVal, direction)

\* the body of the comparator on aVal = a[sortColumn], bVal = b[sortColumn]
compareValues(aVal, bVal, direction) ==
  IF IsNullish(aVal) THEN 1
  ELSE IF IsNullish(bVal) THEN -1
  ELSE compareParsed(parseFloat(aVal), parseFloat(bVal), aVal, bVal, direction)

\* (a, b) => ... of sortedData.sort, with sortColumn and sortDirection explicit
comparator(a, b, column, direction) ==
  compareValues(Get(a, column), Get(b, column), direction)

----------------------------------------------------------------------------
(* Array.prototype.sort of V8 from version 7.0 (TimSort) for fewer than 64   *)
(* elements: one natural run, then binary insertion of the remaining        *)
(* elements.  Indices are 1-based.                                          *)

\* the run ends where the order of two neighbours contradicts its direction
RunBreaks(order, isDescending) ==
  (isDescending /\ order >= 0) \/ (~isDescending /\ order < 0)

RECURSIVE RunEnd(_, _, _, _, _)
\* first index after the natural run that starts at 1; idx >= 3
RunEnd(arr, idx, isDescending, column, direction) ==
  IF idx > Len(arr) THEN idx
  ELSE IF RunBreaks(comparator(arr[idx], arr[idx - 1], column, direction), isDescending)
  THEN idx
  ELSE RunEnd(arr, idx + 1, isDescending, column, direction)

\* arr with its first k elements reversed
ReversePrefix(arr, k) ==
  SubSeq([i \in 1..Len(arr) |-> IF i <= k THEN arr[k + 1 - i] ELSE arr[i]],
         1, Len(arr))

\* a strictly descending run is reversed in place
MakeRun(arr, isDescending, runLength) ==
  [arr |-> IF isDescending THEN ReversePrefix(arr, runLength) ELSE arr,
   runLength |-> runLength]

CountRun(arr, isDescending, column, direction) ==
  MakeRun(arr, isDescending, RunEnd(arr, 3, isDescending, column, direction) - 1)

\* the array after CountAndMakeRun and the length of the run, Len(arr) >= 2
CountAndMakeRun(arr, column, direction) ==
  CountRun(arr, comparator(arr[2], arr[1], column, direction) < 0, column, direction)

Mid(left, right) == left + ((right - left) \div 2)

RECURSIVE BinarySearch(_, _, _, _, _, _)
\* insertion point of pivot in the sorted range [left, right)
BinarySearch(arr, pivot, left, right, column, direction) ==
  IF left >= right THEN left
  ELSE IF comparator(pivot, arr[Mid(left, right)], column, direction) < 0
  THEN BinarySearch(arr, pivot, left, Mid(left, right), column, direction)
  ELSE BinarySearch(arr, pivot, Mid(left, right) + 1, right, column, direction)

\* arr[start] moved down to position left
InsertAt(arr, left, start) ==
  SubSeq(arr, 1, left - 1) \o <<arr[start]>> \o
  SubSeq(arr, left, start - 1) \o SubSeq(arr, start + 1, Len(arr))

RECURSIVE BinaryInsertionSort(_, _, _, _)
\* inserts arr[start], arr[start+1], ... into the sorted prefix before them;
\* each intermediate array is bound to a value before the next insertion
BinaryInsertionSort(arr, start, column, direction) ==
  IF start > Len(arr) THEN arr
  ELSE CHOOSE sorted \in
         {BinaryInsertionSort(next, start + 1, column, direction) :
            next \in {InsertAt(arr,
                               BinarySearch(arr, arr[start], 1, start, column, direction),
                               start)}} : TRUE

InsertRest(runs, column, direction) ==
  CHOOSE sorted \in
    {BinaryInsertionSort(run.arr, run.runLength + 1, column, direction) :
       run \in runs} : TRUE

\* the sort of V8 from version 7.0 on an array of fewer than 64 rows
TimSort(arr, column, direction) ==
  IF Len(arr) < 2 THEN arr
  ELSE InsertRest({CountAndMakeRun(arr, column, direction)}, column, direction)

----------------------------------------------------------------------------
(* Array.prototype.sort of V8 before version 7.0: insertion sort for ranges  *)
(* of at most 10 elements, quicksort with a median-of-three pivot for longer *)
(* ones (up to 1000 elements).  Indices are those of the source, from 0;     *)
(* a range is [from, to).                                                    *)

\* a[i]
At(arr, i) == arr[i + 1]

\* a[i] = value
Put(arr, i, value) == [arr EXCEPT ![i + 1] = value]

RECURSIVE Landing(_, _, _, _, _, _)
\* the index at which element is put: the scan goes down from j and stops
\* at the first element that is not after it
Landing(arr, j, from, element, column, direction) ==
  IF j < from THEN from
  ELSE IF comparator(At(arr, j), element, column, direction) > 0
  THEN Landing(arr, j - 1, from, element, column, direction)
  ELSE j + 1

RECURSIVE InsertionSort(_, _, _, _, _, _)
\* InsertionSort(a, from, to) from the element at index i on; each
\* intermediate array is bound to a value before the next insertion
InsertionSort(arr, from, to, i, column, direction) ==
  IF i >= to THEN arr
  ELSE CHOOSE sorted \in
         {InsertionSort(next, from, to, i + 1, column, direction) :
            next \in {InsertAt(arr,
                               Landing(arr, i - 1, from, At(arr, i), column, direction) + 1,
                               i + 1)}} : TRUE

\* v0, v1, v2 in the order the three comparisons of the pivot selection leave
\* them: v0 <= v1 <= v2 for a consistent comparator
MedianOfThree(v0, v1, v2, column, direction) ==
  LET c01 == comparator(v0, v1, column, direction)
      w0  == IF c01 > 0 THEN v1 ELSE v0
      w1  == IF c01 > 0 THEN v0 ELSE v1
      c02 == comparator(w0, v2, column, direction)
      c12 == comparator(w1, v2, column, direction)
  IN  IF c02 >= 0 THEN <<v2, w0, w1>>
      ELSE IF c12 > 0 THEN <<w0, v2, w1>>
      ELSE <<w0, w1, v2>>

\* the array when the partition loop starts: the least of the three at from,
\* the greatest at to - 1, the element of from + 1 at the middle index and
\* the pivot at from + 1
WithPivot(arr, from, to, third, three) ==
  Put(Put(Put(Put(arr, from, three[1]), to - 1, three[3]),
          third, At(Put(Put(arr, from, three[1]), to - 1, three[3]), from + 1)),
      from + 1, three[2])

RECURSIVE ScanDown(_, _, _, _, _, _)
\* the do-while loop: high_start goes down from h to the first index whose
\* element is not after the pivot, or to i
ScanDown(arr, h, i, pivot, column, direction) ==
  IF h = i THEN h
  ELSE IF comparator(At(arr, h), pivot, column, direction) > 0
  THEN ScanDown(arr, h - 1, i, pivot, column, direction)
  ELSE h

\* a[i] and a[j] exchanged
Swap(arr, i, j) == Put(Put(arr, i, At(arr, j)), j, At(arr, i))

\* the state after the element at i was found after the pivot and high_start
\* went down to h
AfterScan(st, h, element, pivot, column, direction) ==
  IF h = st.i THEN [st EXCEPT !.high = h, !.done = TRUE]
  ELSE IF comparator(At(st.a, h), pivot, column, direction) < 0
  THEN [a |-> Swap(Swap(st.a, st.i, h), st.i, st.low),
        low |-> st.low + 1, high |-> h, i |-> st.i + 1, done |-> FALSE]
  ELSE [a |-> Swap(st.a, st.i, h),
        low |-> st.low, high |-> h, i |-> st.i + 1, done |-> FALSE]

\* one round of the partition loop on the element at index i
PartitionStep(st, order, pivot, column, direction) ==
  IF order < 0
  THEN [a |-> Swap(st.a, st.i, st.low),
        low |-> st.low + 1, high |-> st.high, i |-> st.i + 1, done |-> FALSE]
  ELSE IF order > 0
  THEN AfterScan(st, ScanDown(st.a, st.high - 1, st.i, pivot, column, direction),
                 At(st.a, st.i), pivot, column, direction)
  ELSE [st EXCEPT !.i = st.i + 1]

RECURSIVE Partition(_, _, _, _)
\* the partition loop: the elements before low_end are before the pivot,
\* those from high_start on are after it; each state is bound to a value
\* before the next round
Partition(st, pivot, column, direction) ==
  IF st.done \/ st.i >= st.high THEN st
  ELSE CHOOSE last \in
         {Partition(next, pivot, column, direction) :
            next \in {PartitionStep(st,
                                    comparator(At(st.a, st.i), pivot, column, direction),
                                    pivot, column, direction)}} : TRUE

\* the array partitioned around the median of its first, last and middle
\* element, with low_end and high_start
Partitioned(arr, from, to, three, column, direction) ==
  Partition([a |-> WithPivot(arr, from, to, from + ((to - from) \div 2), three),
             low |-> from + 1, high |-> to - 1, i |-> from + 2, done |-> FALSE],
            three[2], column, direction)

RECURSIVE QuickSort(_, _, _, _, _)
\* QuickSort(a, from, to): the two parts are sorted one after the other
QuickSort(arr, from, to, column, direction) ==
  IF to - from <= 10 THEN InsertionSort(arr, from, to, from + 1, column, direction)
  ELSE CHOOSE sorted \in
         {QuickSort(QuickSort(st.a, from, st.low, column, direction),
                    st.high, to, column, direction) :
            st \in {Partitioned(arr, from, to,
                                MedianOfThree(At(arr, from), At(arr, to - 1),
                                              At(arr, from + ((to - from) \div 2)),
                                              column, direction),
                                column, direction)}} : TRUE

\* the sort of V8 before version 7.0
LegacySort(arr, column, direction) ==
  IF Len(arr) < 2 THEN arr ELSE QuickSort(arr, 0, Len(arr), column, direction)

\* Array.prototype.sort(comparator) as the runtime implements it
ArraySort(arr, column, direction) ==
  IF runtime.sort = "TimSort" THEN TimSort(arr, column, direction)
  ELSE LegacySort(arr, column, direction)

----------------------------------------------------------------------------
(* Derived views of the component: processedData, pagination *)

\* const rowsPerPage = 10
rowsPerPage == 10

\* useState(null) of sortColumn
NoColumn == "(null)"

\* useState(null) of expandedCell
NoCell == [open |-> FALSE, value |-> NullV, column |-> NoColumn, rowIndex |-> 0]

Min(x, y) == IF x < y THEN x ELSE y

\* Array.prototype.slice(from, to) with 0 <= from, on a 1-based sequence
Slice(arr, from, to) == SubSeq(arr, from + 1, Min(to, Len(arr)))

\* if (maxRows) sortedData = sortedData.slice(0, maxRows)
applyLimit(sortedData, limit) ==
  IF limit # 0 THEN Slice(sortedData, 0, limit) ELSE sortedData

\* the row limit applied to the dataset first, the sort to what is left
processedDataSliceFirst(d, column, direction, limit) ==
  IF Len(d) = 0 THEN <<>>
  ELSE IF column # NoColumn THEN ArraySort(applyLimit(d, limit), column, direction)
  ELSE applyLimit(d, limit)

\* the useMemo body: a sorted copy of data, then the first maxRows rows of it;
\* limit = 0 stands for maxRows = null (both are falsy)
processedData(d, column, direction, limit) ==
  IF Len(d) = 0 THEN <<>>
  ELSE applyLimit(IF column # NoColumn THEN ArraySort(d, column, direction) ELSE d,
                  limit)

\* processedData of the current state
visibleRows == processedData(data, sortColumn, sortDirection, maxRows)

\* the pages counted without the last, partly filled one
PagesOfFloor(length) == length \div rowsPerPage

\* Math.ceil(length / rowsPerPage)
PagesOf(length) == (length + rowsPerPage - 1) \div rowsPerPage

totalPages == PagesOf(Len(visibleRows))

startIndex == (currentPage - 1) * rowsPerPage

endIndex == startIndex + rowsPerPage

currentData == Slice(visibleRows, startIndex, endIndex)

\* the early return "No data available": nothing below it is rendered
isEmptyState == Len(data) = 0

\* Object.keys(data[0]), as a set
columns == IF isEmptyState THEN {} ELSE OwnKeys(data[1])

\* the pages of 1..pages that get a numbered button when on page `current`
PageFilter(pages, current) ==
  {page \in 1..pages :
     page = 1 \/ page = pages \/ (page - current <= 2 /\ current - page <= 2)}

pageButtons == PageFilter(totalPages, currentPage)

\* Array.from({ length: totalPages }, (_, i) => i + 1).filter(...): the pages
\* of the numbered buttons in the order they are rendered
pageNumbers(pages, current) ==
  SelectSeq([i \in 1..pages |-> i],
            LAMBDA page : page = 1 \/ page = pages
                            \/ (page - current <= 2 /\ current - page <= 2))

\* an ellipsis is rendered before every numbered button but the first
ellipsisBeforeEach(array, index) == index > 1

\* index > 0 && array[index - 1] !== page - 1, for the 1-based index
ellipsisBefore(array, index) == index > 1 /\ array[index - 1] # array[index] - 1

\* .map((page, index, array) => ...): the numbered buttons, each with the
\* ellipsis before it or without
pageItems(array) ==
  [index \in 1..Len(array) |->
     [page |-> array[index], ellipsis |-> ellipsisBefore(array, index)]]

\* {totalPages > 1 && (...)}: the pagination bar is rendered below a
\* non-empty table of several pages
paginationShown == ~isEmptyState /\ totalPages > 1

\* the numbered buttons and ellipses rendered: those of the pagination bar,
\* and none when the bar is not rendered
pageControls ==
  IF paginationShown THEN pageItems(pageNumbers(totalPages, currentPage))
  ELSE <<>>

----------------------------------------------------------------------------
(* Cell display *)

\* the three digits of k < 1000, leading zeros kept
ThreeDigits(k) ==
  <<DigitChars[(k \div 100) + 1], DigitChars[((k \div 10) % 10) + 1],
    DigitChars[(k % 10) + 1]>>

\* the two digits of k < 100, a leading zero kept
TwoDigits(k) == <<DigitChars[(k \div 10) + 1], DigitChars[(k % 10) + 1]>>

\* the character a locale puts between the groups of digits: a comma, a full
\* stop, a no-break space or a narrow no-break space
GroupSeparator(locale) ==
  IF locale \in {"de-DE", "az-AZ"} THEN "."
  ELSE IF locale \in {"nb-NO", "sq-AL"} THEN "U+00A0"
  ELSE IF locale = "fr-FR" THEN "U+202F"
  ELSE ","

\* the digits of a group after the lowest one: 2 in en-IN (12,34,567), else 3
GroupSize(locale) == IF locale = "en-IN" THEN 2 ELSE 3

RECURSIVE GroupDigits(_, _, _)
\* the digits of k in groups of two or three, the separator between them
GroupDigits(k, size, separator) ==
  IF size = 3
  THEN (IF k < 1000 THEN NumToStr(k)
        ELSE GroupDigits(k \div 1000, size, separator) \o <<separator>>
               \o ThreeDigits(k % 1000))
  ELSE (IF k < 100 THEN NumToStr(k)
        ELSE GroupDigits(k \div 100, size, separator) \o <<separator>>
               \o TwoDigits(k % 100))

\* the digits a number must have above its lowest three to be grouped: 2 in
\* sq-AL (1000 and 9999 are written without a separator), else 1
MinimumGroupingDigits(locale) == IF locale = "sq-AL" THEN 2 ELSE 1

\* k.toLocaleString(locale) of a non-negative integer: the lowest three
\* digits, the digits above them in groups; a number without enough digits
\* above the lowest three is not grouped
toLocaleStringIn(k, locale) ==
  IF k < 1000 * Pow10(MinimumGroupingDigits(locale) - 1) THEN NumToStr(k)
  ELSE GroupDigits(k \div 1000, GroupSize(locale), GroupSeparator(locale))
         \o <<GroupSeparator(locale)>> \o ThreeDigits(k % 1000)

\* Number.prototype.toLocaleString without a locale argument: the default
\* locale of the runtime decides
toLocaleString(k) == toLocaleStringIn(k, runtime.locale)

\* formatNumber(num) of a number: num.toLocaleString()
formatNumber(num) == toLocaleString(num.num)

\* the text shown in a table cell
formatCellValue(value) ==
  IF IsNullish(value) THEN <<"-">>
  ELSE IF IsNumber(value) THEN formatNumber(value)
  ELSE IF IsString(value) /\ Len(Chars(value)) > 50
  THEN SubSeq(Chars(value), 1, 50) \o <<".", ".", ".">>
  ELSE ToStr(value)

----------------------------------------------------------------------------
(* Export *)

\* no file has been handed to the browser
NoDownload ==
  [made |-> FALSE, exporter |-> "", rows |-> <<>>,
   filename |-> [stem |-> <<>>, extension |-> ""]]

\* the format values handleExport is applied to; the two export buttons pass
\* "csv" and "json"
Formats == {"csv", "json", "xml", "CSV"}

\* const exportData = maxRows ? data.slice(0, maxRows) : data
exportData(d, limit) == IF limit # 0 THEN Slice(d, 0, limit) ELSE d

\* title.toLowerCase().replace(/\s+/g, '_') of the default title "Data Table";
\* the part of a file name before the extension is a sequence of texts
titleStem == <<"data_table">>

\* the exporter handleExport calls for a format
exporterOf(format) == IF format = "csv" THEN "downloadCSV" ELSE "downloadJSON"

----------------------------------------------------------------------------
(* convertToCSV: the text downloadCSV puts in the file.  Texts are sequences *)
(* of characters; a column name is one character.                           *)

Comma == ","

Quote == "\""

Newline == "\n"

\* String.prototype.includes of a single character
Includes(str, c) == \E i \in 1..Len(str) : str[i] = c

RECURSIVE ReplaceQuotes(_)
\* value.replace(/"/g, '""')
ReplaceQuotes(str) ==
  IF Len(str) = 0 THEN <<>>
  ELSE (IF Head(str) = Quote THEN <<Quote, Quote>> ELSE <<Head(str)>>)
         \o ReplaceQuotes(Tail(str))

\* a string with a comma, a quote or a newline is wrapped in quotes, its own
\* quotes left single
csvStringKeepQuotes(str) ==
  IF Includes(str, Comma) \/ Includes(str, Quote) \/ Includes(str, Newline)
  THEN <<Quote>> \o str \o <<Quote>>
  ELSE str

\* the field of a string value
csvString(str) ==
  IF Includes(str, Comma) \/ Includes(str, Quote) \/ Includes(str, Newline)
  THEN <<Quote>> \o ReplaceQuotes(str) \o <<Quote>>
  ELSE str

\* the field of a value: '' for null and undefined, a string escaped, any
\* other value as Array.prototype.join writes it, String(value)
csvField(value) ==
  IF IsNullish(value) THEN <<>>
  ELSE IF IsString(value) THEN csvString(Chars(value))
  ELSE ToStr(value)

RECURSIVE Join(_, _)
\* Array.prototype.join of an array of texts
Join(texts, separator) ==
  IF Len(texts) = 0 THEN <<>>
  ELSE IF Len(texts) = 1 THEN texts[1]
  ELSE texts[1] \o <<separator>> \o Join(Tail(texts), separator)

\* the place of a one-character key in the alphabetical order: digits, then
\* letters
KeyRank(key) == PrimaryWeight(key, "en-US")

RECURSIVE KeysFrom(_)
\* the keys of a set in alphabetical order
KeysFrom(keys) ==
  IF keys = {} THEN <<>>
  ELSE <<CHOOSE k \in keys : \A other \in keys : KeyRank(k) <= KeyRank(other)>>
         \o KeysFrom(keys \ {CHOOSE k \in keys :
                                \A other \in keys : KeyRank(k) <= KeyRank(other)})

\* the keys of a row in the order they were written
InsertionOrder(row) ==
  IF "keyOrder" \in DOMAIN row THEN row.keyOrder ELSE KeysFrom(OwnKeys(row))

\* Object.keys(row): the integer keys in ascending order, then the other
\* keys in the order they were written
ObjectKeys(row) ==
  KeysFrom({key \in OwnKeys(row) : IsDigit(key)})
    \o SelectSeq(InsertionOrder(row), LAMBDA key : ~IsDigit(key))

\* the fields of a row taken from the keys of the row itself
csvRowOwnKeys(row, headers) ==
  Join([h \in 1..Len(ObjectKeys(row)) |-> csvField(Get(row, ObjectKeys(row)[h]))], Comma)

\* headers.map(header => ...).join(',') of one row
csvRow(row, headers) ==
  Join([h \in 1..Len(headers) |-> csvField(Get(row, headers[h]))], Comma)

\* the lines of the file: the header line, then one line for each row
csvLines(d, headers) ==
  <<Join([h \in 1..Len(headers) |-> <<headers[h]>>], Comma)>>
    \o [i \in 1..Len(d) |-> csvRow(d[i], headers)]

\* convertToCSV(data)
convertToCSV(d) ==
  IF Len(d) = 0 THEN <<>> ELSE Join(csvLines(d, ObjectKeys(d[1])), Newline)

----------------------------------------------------------------------------
(* Datasets handed to the component *)

\* the b column of the rows of a grid dataset
GridValue(i) ==
  IF i % 3 = 0 THEN NullV
  ELSE IF i = 1 THEN RepV(51)
  ELSE IF i = 4 THEN RepV(50)
  ELSE IF i = 5 THEN BoolV(TRUE)
  ELSE IF i = 7 THEN RepV(60)
  ELSE IF i % 3 = 1 THEN StrV(<<"a">>)
  ELSE StrV(<<"9">>)

\* a dataset of n rows with the columns a (row number) and b
GridData(n) == [i \in 1..n |-> [a |-> NumV(i), b |-> GridValue(i)]]

\* empty, one page, two pages, three pages
GridDatasets == {GridData(n) : n \in {0, 3, 11, 21}}

\* the values of the sorted column: null, a number, numeric strings, text
SortValues == {NullV, NumV(2), StrV(<<"9">>), StrV(<<"1", "0">>), StrV(<<"a">>)}

\* strings whose order depends on the locale (aa and b, x and l, e and b, ff
\* and fl, ll and lr), on the case (a and A) and on the reading of an
\* exponent (1e1 and 9)
CollationValues ==
  {StrV(<<"a", "a">>), StrV(<<"b">>), StrV(<<"e">>), StrV(<<"l">>), StrV(<<"x">>),
   StrV(<<"f", "f">>), StrV(<<"f", "l">>), StrV(<<"l", "l">>), StrV(<<"l", "r">>),
   StrV(<<"a">>), StrV(<<"A">>), StrV(<<"1", "e", "1">>), StrV(<<"9">>)}

\* a dataset of n rows with "10" in column b of the odd rows and "9" in that
\* of the even rows
TiedData(n) ==
  [i \in 1..n |->
     [a |-> NumV(i), b |-> IF i % 2 = 0 THEN StrV(<<"9">>) ELSE StrV(<<"1", "0">>)]]

\* datasets of more than 10 rows, which the sort of V8 before version 7.0
\* sorts by quicksort: one without null values, one with
LongDatasets == {TiedData(11), GridData(11)}

\* every dataset of two rows of these values
CollationDatasets ==
  {<<[a |-> NumV(1), b |-> first], [a |-> NumV(2), b |-> second]>> :
     first \in CollationValues, second \in CollationValues}

\* every dataset of at most MaxLen rows; column a holds the original position
SortDatasets ==
  UNION {{[i \in 1..n |-> [a |-> NumV(i), b |-> bs[i]]] :
            bs \in [1..n -> SortValues]} : n \in 0..MaxLen}

\* every dataset of at most MaxLen rows whose only column is a
OneColumnDatasets ==
  UNION {{[i \in 1..n |-> [a |-> as[i]]] : as \in [1..n -> {NumV(1), NumV(2)}]} :
           n \in 0..MaxLen}

\* a dataset of n rows of one column
PagerData(n) == [i \in 1..n |-> [a |-> NumV(i)]]

\* datasets of 1 to MaxPagerPages pages, the last page with one row
PagerDatasets == {PagerData(10 * pages - 9) : pages \in 1..MaxPagerPages}

\* the characters of the CSV fields: a letter and the three special ones
CsvChars == {"a", Comma, Quote, Newline}

\* Hello, "World"
HelloWorld ==
  <<"H", "e", "l", "l", "o", Comma, " ", Quote, "W", "o", "r", "l", "d", Quote>>

\* every string of at most MaxField characters, and Hello, "World"
CsvStrings == UNION {[1..n -> CsvChars] : n \in 0..MaxField} \cup {HelloWorld}

\* datasets whose first row has its keys written in another order than the
\* alphabetical one, as the rows of a query that selects b before a have
KeyOrderDatasets ==
  {<<[a |-> StrV(<<"a">>), b |-> NumV(12), keyOrder |-> <<"b", "a">>]>>,
   <<[a |-> StrV(<<Comma>>), b |-> NullV, e |-> BoolV(TRUE), keyOrder |-> <<"e", "b", "a">>],
     [a |-> NullV, b |-> NumV(1), e |-> NullV, keyOrder |-> <<"b", "e", "a">>]>>}

\* datasets whose rows do not all have the keys of the first row: a key of
\* the first row missing (undefined), a key the first row does not have, a
\* last row of one empty field
RaggedDatasets ==
  {<<[a |-> StrV(<<"a", Comma>>), b |-> NumV(12)],
     [a |-> NullV],
     [a |-> StrV(<<Newline>>), b |-> BoolV(TRUE), e |-> NumV(1)]>>,
   <<[a |-> StrV(<<"a">>)], [a |-> NullV]>>,
   <<[a |-> NullV, b |-> NullV], [a |-> StrV(<<>>), b |-> StrV(<<Quote>>)]>>}

\* the one-row datasets with a string in column a, the two-row datasets with
\* strings of at most one character, the ragged datasets and the datasets
\* with a key order
CsvDatasets ==
  {<<[a |-> StrV(str), b |-> other]>> :
     str \in CsvStrings, other \in {NullV, NumV(12)}}
  \cup {<<[a |-> StrV(first), b |-> BoolV(FALSE)], [a |-> StrV(second), b |-> NullV]>> :
          first \in [1..1 -> CsvChars], second \in UNION {[1..n -> CsvChars] : n \in 0..1}}
  \cup RaggedDatasets
  \cup KeyOrderDatasets

----------------------------------------------------------------------------
(* Operations *)

\* a click on a new column keeps the direction of the previous sort
handleSortKeepDirection(column) ==
  /\ column \in columns
  /\ IF sortColumn = column
     THEN /\ sortDirection' = (IF sortDirection = "asc" THEN "desc" ELSE "asc")
          /\ sortColumn' = sortColumn
     ELSE /\ sortColumn' = column
          /\ sortDirection' = sortDirection
  /\ currentPage' = 1
  /\ UNCHANGED <<data, maxRows, expandedCell>>
  /\ UNCHANGED <<showExport, download, chatVars, explorerVars, runtime>>

\* the page is left where it was
handleSortKeepPage(column) ==
  /\ column \in columns
  /\ IF sortColumn = column
     THEN /\ sortDirection' = (IF sortDirection = "asc" THEN "desc" ELSE "asc")
          /\ sortColumn' = sortColumn
     ELSE /\ sortColumn' = column
          /\ sortDirection' = "asc"
  /\ UNCHANGED <<data, maxRows, expandedCell, currentPage>>
  /\ UNCHANGED <<showExport, download, chatVars, explorerVars, runtime>>

\* a click on the header cell of `column`
handleSort(column) ==
  /\ column \in columns
  /\ IF sortColumn = column
     THEN /\ sortDirection' = (IF sortDirection = "asc" THEN "desc" ELSE "asc")
          /\ sortColumn' = sortColumn
     ELSE /\ sortColumn' = column
          /\ sortDirection' = "asc"
  /\ currentPage' = 1
  /\ UNCHANGED <<data, maxRows, expandedCell>>
  /\ UNCHANGED <<showExport, download, chatVars, explorerVars, runtime>>

\* the Previous button, disabled on page 1
previousPage ==
  /\ paginationShown
  /\ currentPage # 1
  /\ currentPage' = currentPage - 1
  /\ UNCHANGED <<data, maxRows, sortColumn, sortDirection, expandedCell>>
  /\ UNCHANGED <<showExport, download, chatVars, explorerVars, runtime>>

\* the Next button, disabled on the page equal to totalPages; past the last
\* page it stays enabled and the page grows without end, which the model
\* follows up to MaxPage
nextPage ==
  /\ paginationShown
  /\ currentPage # totalPages
  /\ currentPage > totalPages => currentPage < MaxPage
  /\ currentPage' = currentPage + 1
  /\ UNCHANGED <<data, maxRows, sortColumn, sortDirection, expandedCell>>
  /\ UNCHANGED <<showExport, download, chatVars, explorerVars, runtime>>

\* a numbered page button
setCurrentPage(page) ==
  /\ paginationShown
  /\ page \in pageButtons
  /\ currentPage' = page
  /\ UNCHANGED <<data, maxRows, sortColumn, sortDirection, expandedCell>>
  /\ UNCHANGED <<showExport, download, chatVars, explorerVars, runtime>>

\* the cells of the rows of a page: the arguments of the onClick handlers,
\* handleCellClick(row[column], column, rowIndex) with rowIndex from 0
CellsOf(rows, cols) ==
  {[value |-> Get(rows[index], column), column |-> column, rowIndex |-> index - 1] :
     index \in 1..Len(rows), column \in cols}

\* the cells of the page shown
cellsShown == CellsOf(currentData, columns)

\* the expanded cell holds the text shown in the table cell
handleCellClickDisplayed(value, column, rowIndex) ==
  /\ ~isEmptyState
  /\ IF IsString(value) /\ Len(Chars(value)) > 50
     THEN expandedCell' = [open |-> TRUE, value |-> StrV(formatCellValue(value)),
                           column |-> column, rowIndex |-> rowIndex]
     ELSE expandedCell' = expandedCell
  /\ UNCHANGED <<data, maxRows, sortColumn, sortDirection, currentPage>>
  /\ UNCHANGED <<showExport, download, chatVars, explorerVars, runtime>>

\* a string of 50 characters is expanded as well
handleCellClickFromFifty(value, column, rowIndex) ==
  /\ ~isEmptyState
  /\ IF IsString(value) /\ Len(Chars(value)) >= 50
     THEN expandedCell' = [open |-> TRUE, value |-> value,
                           column |-> column, rowIndex |-> rowIndex]
     ELSE expandedCell' = expandedCell
  /\ UNCHANGED <<data, maxRows, sortColumn, sortDirection, currentPage>>
  /\ UNCHANGED <<showExport, download, chatVars, explorerVars, runtime>>

\* a click is ignored while a cell is expanded
handleCellClickWhenClosed(value, column, rowIndex) ==
  /\ ~isEmptyState
  /\ IF IsString(value) /\ Len(Chars(value)) > 50 /\ ~expandedCell.open
     THEN expandedCell' = [open |-> TRUE, value |-> value,
                           column |-> column, rowIndex |-> rowIndex]
     ELSE expandedCell' = expandedCell
  /\ UNCHANGED <<data, maxRows, sortColumn, sortDirection, currentPage>>
  /\ UNCHANGED <<showExport, download, chatVars, explorerVars, runtime>>

\* handleCellClick(value, column, rowIndex): a click on a cell of the page
handleCellClick(value, column, rowIndex) ==
  /\ ~isEmptyState
  /\ IF IsString(value) /\ Len(Chars(value)) > 50
     THEN expandedCell' = [open |-> TRUE, value |-> value,
                           column |-> column, rowIndex |-> rowIndex]
     ELSE expandedCell' = expandedCell
  /\ UNCHANGED <<data, maxRows, sortColumn, sortDirection, currentPage>>
  /\ UNCHANGED <<showExport, download, chatVars, explorerVars, runtime>>

\* the expanded cell and its Close button rendered above the empty state too
closeExpandedCellWhenEmpty ==
  /\ expandedCell.open
  /\ expandedCell' = NoCell
  /\ UNCHANGED <<data, maxRows, sortColumn, sortDirection, currentPage>>
  /\ UNCHANGED <<showExport, download, chatVars, explorerVars, runtime>>

\* the Close button of the expanded cell, or a click on its overlay
closeExpandedCell ==
  /\ ~isEmptyState
  /\ expandedCell.open
  /\ expandedCell' = NoCell
  /\ UNCHANGED <<data, maxRows, sortColumn, sortDirection, currentPage>>
  /\ UNCHANGED <<showExport, download, chatVars, explorerVars, runtime>>

\* the rows handed to the exporter are the rows of the table as shown
handleExportVisibleRows(format) ==
  /\ ~isEmptyState
  /\ showExport
  /\ download' = [made |-> TRUE, exporter |-> exporterOf(format),
                  rows |-> visibleRows,
                  filename |-> [stem |-> titleStem, extension |-> format]]
  /\ UNCHANGED <<gridVars, chatVars, explorerVars, runtime>>

\* a format that is neither csv nor json exports nothing
handleExportKnownFormats(format) ==
  /\ ~isEmptyState
  /\ showExport
  /\ IF format \in {"csv", "json"}
     THEN download' = [made |-> TRUE, exporter |-> exporterOf(format),
                       rows |-> exportData(data, maxRows),
                       filename |-> [stem |-> titleStem, extension |-> format]]
     ELSE download' = download
  /\ UNCHANGED <<gridVars, chatVars, explorerVars, runtime>>

\* handleExport(format): downloadCSV or downloadJSON called with exportData
\* and the file name
handleExport(format) ==
  /\ ~isEmptyState
  /\ showExport
  /\ download' = [made |-> TRUE, exporter |-> exporterOf(format),
                  rows |-> exportData(data, maxRows),
                  filename |-> [stem |-> titleStem, extension |-> format]]
  /\ UNCHANGED <<gridVars, chatVars, explorerVars, runtime>>

\* the parent renders the mounted component again with another data prop:
\* the useState values are those of the previous render
replaceData(d) ==
  /\ d # data
  /\ data' = d
  /\ UNCHANGED <<maxRows, sortColumn, sortDirection, currentPage, expandedCell>>
  /\ UNCHANGED <<showExport, download, chatVars, explorerVars, runtime>>

----------------------------------------------------------------------------
(* The chat: useChat and the input box of ChatPage *)

\* useState(null) of error
NoError == "(null)"

\* useChat and ChatPage just mounted: no message, not loading, no error, an
\* empty input box, no request in flight
ChatMounted ==
  /\ messages = <<>>
  /\ isLoading = FALSE
  /\ error = NoError
  /\ requests = <<>>
  /\ now = 0
  /\ inputText = <<>>

\* the hook state sendMessage, the replies, clearChat and removeMessage write
hookVars == <<messages, isLoading, error, requests>>

\* the white space and line terminator characters of ECMAScript; a character
\* that has no escape in a TLA+ string is written as its code point
WhiteSpaceChars ==
  {" ", "\t", "\n", "\r", "\f", "U+000B", "U+00A0", "U+FEFF", "U+1680",
   "U+2000", "U+2001", "U+2002", "U+2003", "U+2004", "U+2005", "U+2006",
   "U+2007", "U+2008", "U+2009", "U+200A", "U+2028", "U+2029", "U+202F",
   "U+205F", "U+3000"}

\* the character is one of those String.prototype.trim removes
IsWhite(c) == c \in WhiteSpaceChars

\* the positions of str that hold no white space
NonWhite(str) == {i \in 1..Len(str) : ~IsWhite(str[i])}

\* str from the first to the last of the positions ks, '' when there is none
TrimTo(str, ks) ==
  IF ks = {} THEN <<>>
  ELSE SubSeq(str, CHOOSE k \in ks : \A j \in ks : k <= j,
                   CHOOSE k \in ks : \A j \in ks : k >= j)

\* String.prototype.trim
trim(str) == TrimTo(str, NonWhite(str))

\* the texts sendMessage is called with and the texts typed in the input box
ChatTexts == {<<>>, <<" ", "\r">>, <<" ", "a">>}

\* error.response?.data?.detail of a failed request: none (no response, as on
\* a timeout, or a body without detail), a string, or a list of objects (the
\* validation errors of an HTTP 422)
NoDetail == [kind |-> "none"]

TextDetail(text) == [kind |-> "string", text |-> text]

ListDetail(items) == [kind |-> "list", items |-> items]

\* String(detail) of a list of at most two objects
ListToStr(items) ==
  CASE items = 0 -> ""
    [] items = 1 -> "[object Object]"
    [] items = 2 -> "[object Object],[object Object]"

\* err.message of the Error thrown by apiService.sendChatMessage:
\* new Error(detail || 'Failed to send message'); the empty string is falsy,
\* a list is not
sendChatMessageError(detail) ==
  IF detail.kind = "none" THEN "Failed to send message"
  ELSE IF detail.kind = "string"
  THEN (IF detail.text = "" THEN "Failed to send message" ELSE detail.text)
  ELSE ListToStr(detail.items)

\* the details of the failed requests
ErrorDetails ==
  {NoDetail, TextDetail(""), TextDetail("Invalid query"), ListDetail(1)}

\* the messages of the errors thrown
ApiErrors == {sendChatMessageError(detail) : detail \in ErrorDetails}

\* response.response of a reply
ApiResponses == {"answer"}

\* there is room for a question, its reply and the replies still awaited
RoomToSend == Len(messages) + Len(requests) + 2 <= MaxMessages

\* a blank text is sent like any other
sendMessageUnchecked(messageText) ==
  /\ RoomToSend
  /\ messages' = Append(messages, [id |-> now, type |-> "user", content |-> messageText])
  /\ isLoading' = TRUE
  /\ error' = NoError
  /\ requests' = Append(requests, messageText)

\* the synchronous part of sendMessage(messageText), up to the await: the
\* user message is appended and the request to the API is made
sendMessage(messageText) ==
  IF trim(messageText) = <<>>
  THEN UNCHANGED hookVars
  ELSE /\ RoomToSend
       /\ messages' = Append(messages, [id |-> now, type |-> "user", content |-> messageText])
       /\ isLoading' = TRUE
       /\ error' = NoError
       /\ requests' = Append(requests, messageText)

\* a call of the sendMessage function the hook returns
callSendMessage(messageText) ==
  /\ sendMessage(messageText)
  /\ UNCHANGED <<now, inputText, gridVars, download, explorerVars, runtime>>

\* onChange of the input box, disabled while loading
setInputText(text) ==
  /\ ~isLoading
  /\ inputText' = text
  /\ UNCHANGED <<hookVars, now, gridVars, download, explorerVars, runtime>>

\* the Send button with the test of the input alone: a non-blank input is
\* sent while loading too
handleSendWhileLoading ==
  /\ IF trim(inputText) # <<>>
     THEN /\ sendMessage(trim(inputText))
          /\ inputText' = <<>>
     ELSE UNCHANGED <<hookVars, inputText>>
  /\ UNCHANGED <<now, gridVars, download, explorerVars, runtime>>

\* the Send button and the Enter key: a blank input and a click while loading
\* do nothing
handleSend ==
  /\ IF trim(inputText) # <<>> /\ ~isLoading
     THEN /\ sendMessage(trim(inputText))
          /\ inputText' = <<>>
     ELSE UNCHANGED <<hookVars, inputText>>
  /\ UNCHANGED <<now, gridVars, download, explorerVars, runtime>>

\* the requests without the k-th
Without(pending, k) == SubSeq(pending, 1, k - 1) \o SubSeq(pending, k + 1, Len(pending))

\* the API call of the k-th request resolves: the rest of the try block and
\* the finally block
receiveResponse(k, response) ==
  /\ k \in 1..Len(requests)
  /\ messages' = Append(messages, [id |-> now + 1, type |-> "ai", content |-> <<response>>])
  /\ isLoading' = FALSE
  /\ requests' = Without(requests, k)
  /\ UNCHANGED <<error, now, inputText, gridVars, download, explorerVars, runtime>>

\* the error message takes the place of the message list
receiveErrorAlone(k, message) ==
  /\ k \in 1..Len(requests)
  /\ error' = message
  /\ messages' = <<[id |-> now + 1, type |-> "error",
                    content |-> <<"Sorry, I encountered an error: ", message>>]>>
  /\ isLoading' = FALSE
  /\ requests' = Without(requests, k)
  /\ UNCHANGED <<now, inputText, gridVars, download, explorerVars, runtime>>

\* the catch block alone: the loading flag is left as it is
receiveErrorKeepLoading(k, message) ==
  /\ k \in 1..Len(requests)
  /\ error' = message
  /\ messages' = Append(messages, [id |-> now + 1, type |-> "error",
                                    content |-> <<"Sorry, I encountered an error: ", message>>])
  /\ requests' = Without(requests, k)
  /\ UNCHANGED <<isLoading, now, inputText, gridVars, download, explorerVars, runtime>>

\* the API call of the k-th request rejects: the catch block and the finally
\* block
receiveError(k, message) ==
  /\ k \in 1..Len(requests)
  /\ error' = message
  /\ messages' = Append(messages, [id |-> now + 1, type |-> "error",
                                    content |-> <<"Sorry, I encountered an error: ", message>>])
  /\ isLoading' = FALSE
  /\ requests' = Without(requests, k)
  /\ UNCHANGED <<now, inputText, gridVars, download, explorerVars, runtime>>

\* clearChat()
clearChat ==
  /\ messages' = <<>>
  /\ error' = NoError
  /\ UNCHANGED <<isLoading, requests, now, inputText, gridVars, download, explorerVars, runtime>>

\* the Clear Chat button, rendered while there are messages, with the
\* confirm dialog answered OK
handleClearChat ==
  /\ Len(messages) > 0
  /\ clearChat

\* a click on one of the suggested queries, which are shown while there are
\* no messages
handleSuggestionClick(suggestion) ==
  /\ Len(messages) = 0
  /\ inputText' = suggestion
  /\ UNCHANGED <<hookVars, now, gridVars, download, explorerVars, runtime>>

\* Array.prototype.filter(msg => msg.id !== messageId)
WithoutId(list, messageId) ==
  IF \A i \in 1..Len(list) : list[i].id # messageId THEN list
  ELSE SelectSeq(list, LAMBDA msg : msg.id # messageId)

\* removeMessage(messageId)
removeMessage(messageId) ==
  /\ messages' = WithoutId(messages, messageId)
  /\ UNCHANGED <<isLoading, error, requests, now, inputText, gridVars, download, explorerVars, runtime>>

\* time passes: Date.now() never goes back
tick ==
  /\ now < MaxTime
  /\ now' = now + 1
  /\ UNCHANGED <<hookVars, inputText, gridVars, download, explorerVars, runtime>>

----------------------------------------------------------------------------
(* The database explorer: DatabaseExplorer *)

\* useState(null) of error
Nothing == <<>>

\* useState(null) of selectedTable
NoTable == "(null)"

\* useState(null) of tableData
NoTableData == [null |-> TRUE]

\* the tables of the database, as getDatabaseInfo lists them
TableNames == <<"A", "B">>

\* what getTableInfo returns for a table
TableInfoOf(tableName) ==
  [table |-> tableName,
   sample_data |-> IF tableName = "A" THEN GridData(3) ELSE PagerData(2)]

\* DatabaseExplorer just mounted: the useState values, and loadTables called
\* by the effect (loading is true, getDatabaseInfo awaited)
ExplorerMounted ==
  /\ explorer = [tables |-> <<>>, selectedTable |-> NoTable, tableData |-> NoTableData,
                 loading |-> TRUE, tableLoading |-> FALSE, error |-> Nothing]
  /\ apiCalls = [getDatabaseInfo |-> "pending", getTableInfo |-> <<>>,
                 exportData |-> <<>>]

\* getDatabaseInfo resolves with a list of tables: the rest of the try block
\* of loadTables and its finally block
loadTablesResolved(tableList) ==
  /\ apiCalls.getDatabaseInfo = "pending"
  /\ explorer' = [explorer EXCEPT !.tables = tableList, !.loading = FALSE]
  /\ apiCalls' = [apiCalls EXCEPT !.getDatabaseInfo = "resolved"]
  /\ UNCHANGED <<gridVars, download, chatVars, runtime>>

\* getDatabaseInfo rejects: the catch block of loadTables and its finally block
loadTablesRejected ==
  /\ apiCalls.getDatabaseInfo = "pending"
  /\ explorer' =
       [explorer EXCEPT !.error = <<"Failed to load database information: ",
                                    "Failed to get database information">>,
                        !.loading = FALSE]
  /\ apiCalls' = [apiCalls EXCEPT !.getDatabaseInfo = "rejected"]
  /\ UNCHANGED <<gridVars, download, chatVars, runtime>>

\* the table list is rendered: neither the loading view nor the error view
tableListShown == ~explorer.loading /\ explorer.error = Nothing

\* a click on a table of the list: loadTableData(tableName) up to the await
loadTableData(tableName) ==
  /\ tableListShown
  /\ \E i \in 1..Len(explorer.tables) : explorer.tables[i] = tableName
  /\ Len(apiCalls.getTableInfo) < MaxCalls
  /\ explorer' = [explorer EXCEPT !.tableLoading = TRUE, !.error = Nothing]
  /\ apiCalls' = [apiCalls EXCEPT !.getTableInfo =
                     Append(@, [table |-> tableName, state |-> "pending"])]
  /\ UNCHANGED <<gridVars, download, chatVars, runtime>>

\* the k-th getTableInfo call resolves: the rest of the try block of
\* loadTableData and its finally block
tableInfoResolved(k) ==
  /\ k \in 1..Len(apiCalls.getTableInfo)
  /\ apiCalls.getTableInfo[k].state = "pending"
  /\ explorer' = [explorer EXCEPT !.tableData = TableInfoOf(apiCalls.getTableInfo[k].table),
                                  !.selectedTable = apiCalls.getTableInfo[k].table,
                                  !.tableLoading = FALSE]
  /\ apiCalls' = [apiCalls EXCEPT !.getTableInfo[k].state = "resolved"]
  /\ UNCHANGED <<gridVars, download, chatVars, runtime>>

\* the k-th getTableInfo call rejects: the catch block of loadTableData and
\* its finally block
tableInfoRejected(k) ==
  /\ k \in 1..Len(apiCalls.getTableInfo)
  /\ apiCalls.getTableInfo[k].state = "pending"
  /\ explorer' =
       [explorer EXCEPT !.error = <<"Failed to load table data: ",
                                    "Failed to get table information for ",
                                    apiCalls.getTableInfo[k].table>>,
                        !.tableData = NoTableData,
                        !.tableLoading = FALSE]
  /\ apiCalls' = [apiCalls EXCEPT !.getTableInfo[k].state = "rejected"]
  /\ UNCHANGED <<gridVars, download, chatVars, runtime>>

\* the rows exportData returns for a table: the whole table
FullDataOf(tableName) == IF tableName = "A" THEN GridData(4) ELSE PagerData(3)

\* the card of the selected table with its four export buttons is rendered
tableInfoShown ==
  /\ tableListShown
  /\ explorer.selectedTable # NoTable
  /\ ~explorer.tableLoading
  /\ explorer.tableData # NoTableData

\* the file name `${selectedTable}_sample.${extension}`
sampleFile(extension) ==
  [stem |-> <<explorer.selectedTable, "_sample">>, extension |-> extension]

\* the button "Export Sample (CSV)": the sample rows handed to downloadCSV,
\* if tableData has sample rows
handleExportCSV ==
  /\ tableInfoShown
  /\ IF "sample_data" \in DOMAIN explorer.tableData
     THEN download' = [made |-> TRUE, exporter |-> "downloadCSV",
                       rows |-> explorer.tableData.sample_data,
                       filename |-> sampleFile("csv")]
     ELSE download' = download
  /\ UNCHANGED <<gridVars, chatVars, explorerVars, runtime>>

\* the button "Export Sample (JSON)"
handleExportJSON ==
  /\ tableInfoShown
  /\ IF "sample_data" \in DOMAIN explorer.tableData
     THEN download' = [made |-> TRUE, exporter |-> "downloadJSON",
                       rows |-> explorer.tableData.sample_data,
                       filename |-> sampleFile("json")]
     ELSE download' = download
  /\ UNCHANGED <<gridVars, chatVars, explorerVars, runtime>>

\* the buttons "Export Full Table": handleExportFullTable(format) up to the
\* await, the selected table being the one of the render the click was made in
handleExportFullTable(format) ==
  /\ tableInfoShown
  /\ Len(apiCalls.exportData) < MaxExports
  /\ apiCalls' = [apiCalls EXCEPT !.exportData =
                     Append(@, [format |-> format, table |-> explorer.selectedTable,
                                state |-> "pending"])]
  /\ UNCHANGED <<explorer, gridVars, download, chatVars, runtime>>

\* the k-th exportData call resolves: the rest of the try block of
\* handleExportFullTable
exportResolved(k) ==
  /\ k \in 1..Len(apiCalls.exportData)
  /\ apiCalls.exportData[k].state = "pending"
  /\ download' =
       [made |-> TRUE,
        exporter |-> IF apiCalls.exportData[k].format = "csv" THEN "downloadCSV"
                     ELSE "downloadJSON",
        rows |-> FullDataOf(apiCalls.exportData[k].table),
        filename |-> [stem |-> <<apiCalls.exportData[k].table, "_full">>,
                      extension |-> IF apiCalls.exportData[k].format = "csv" THEN "csv"
                                    ELSE "json"]]
  /\ apiCalls' = [apiCalls EXCEPT !.exportData[k].state = "resolved"]
  /\ UNCHANGED <<explorer, gridVars, chatVars, runtime>>

\* the k-th exportData call rejects: the catch block of handleExportFullTable
\* shows an alert, and no file is made
exportRejected(k) ==
  /\ k \in 1..Len(apiCalls.exportData)
  /\ apiCalls.exportData[k].state = "pending"
  /\ apiCalls' = [apiCalls EXCEPT !.exportData[k].state = "rejected"]
  /\ UNCHANGED <<explorer, gridVars, download, chatVars, runtime>>

----------------------------------------------------------------------------
(* Specifications *)

\* the component just mounted with a dataset and a row limit
Mounted ==
  /\ sortColumn = NoColumn
  /\ sortDirection = "asc"
  /\ currentPage = 1
  /\ expandedCell = NoCell
  /\ download = NoDownload

\* the grid as DatabaseExplorer renders it (no export buttons)
Init ==
  /\ data \in GridDatasets
  /\ maxRows \in {0, 10}
  /\ showExport = FALSE
  /\ Mounted
  /\ ChatMounted
  /\ ExplorerMounted
  /\ runtime \in GridRuntimes

Next ==
  \/ \E column \in {"a", "b"} : handleSort(column)
  \/ previousPage
  \/ nextPage
  \/ \E page \in 1..MaxPage : setCurrentPage(page)
  \/ \E cell \in cellsShown : handleCellClick(cell.value, cell.column, cell.rowIndex)
  \/ closeExpandedCell
  \/ \E d \in GridDatasets : replaceData(d)

Spec == Init /\ [][Next]_vars

\* the sort of every small dataset, by either column, in either direction,
\* by either implementation of the sort; the sort of the two-row datasets
\* whose order depends on the locale, in every collation; the sort of two
\* datasets of 11 rows
SortInit ==
  /\ \/ data \in SortDatasets /\ maxRows \in {0, 2} /\ runtime \in EnglishRuntimes
     \/ data \in CollationDatasets /\ maxRows = 0 /\ runtime \in CollationRuntimes
     \/ data \in LongDatasets /\ maxRows \in {0, 2} /\ runtime \in EnglishRuntimes
  /\ showExport = FALSE
  /\ Mounted
  /\ ChatMounted
  /\ ExplorerMounted

SortNext == \E column \in {"a", "b"} : handleSort(column)

SortSpec == SortInit /\ [][SortNext]_vars

\* the grid with its export buttons, as ChatMessage renders it: sorting, page
\* navigation and export of a dataset that stays the same
ExportInit ==
  /\ data \in GridDatasets
  /\ maxRows \in {0, 2, 10}
  /\ showExport = TRUE
  /\ Mounted
  /\ ChatMounted
  /\ ExplorerMounted
  /\ runtime \in GridRuntimes

ExportNext ==
  \/ \E column \in {"a", "b"} : handleSort(column)
  \/ previousPage
  \/ nextPage
  \/ \E page \in 1..MaxPage : setCurrentPage(page)
  \/ \E format \in Formats : handleExport(format)

ExportSpec == ExportInit /\ [][ExportNext]_vars

\* page navigation in datasets of many pages, unsorted
PagerInit ==
  /\ data \in PagerDatasets
  /\ maxRows \in {0, 45, 70}
  /\ showExport = FALSE
  /\ Mounted
  /\ ChatMounted
  /\ ExplorerMounted
  /\ runtime = DefaultRuntime

PagerNext ==
  \/ previousPage
  \/ nextPage
  \/ \E page \in 1..MaxPagerPages : setCurrentPage(page)

PagerSpec == PagerInit /\ [][PagerNext]_vars

\* the grid with its export buttons under a parent that replaces the dataset,
\* by the empty one among others
EmptyInit ==
  /\ data \in {GridData(0), GridData(11)}
  /\ maxRows \in {0, 10}
  /\ showExport = TRUE
  /\ Mounted
  /\ ChatMounted
  /\ ExplorerMounted
  /\ runtime \in GridRuntimes

\* what the user can do with the grid
userAction ==
  \/ \E column \in {"a", "b"} : handleSort(column)
  \/ previousPage
  \/ nextPage
  \/ \E page \in 1..MaxPage : setCurrentPage(page)
  \/ \E cell \in cellsShown : handleCellClick(cell.value, cell.column, cell.rowIndex)
  \/ closeExpandedCell
  \/ \E format \in {"csv", "json"} : handleExport(format)

EmptyNext ==
  \/ userAction
  \/ \E d \in {GridData(0), GridData(11)} : replaceData(d)

EmptySpec == EmptyInit /\ [][EmptyNext]_vars

\* a grid of the columns a and b whose dataset the parent replaces by
\* datasets that have no column b, the sort column staying what it was
AbsentInit ==
  /\ data = GridData(3)
  /\ maxRows \in {0, 2}
  /\ showExport = FALSE
  /\ Mounted
  /\ ChatMounted
  /\ ExplorerMounted
  /\ runtime \in EnglishRuntimes

AbsentNext ==
  \/ \E column \in {"a", "b"} : handleSort(column)
  \/ \E d \in OneColumnDatasets : replaceData(d)

AbsentSpec == AbsentInit /\ [][AbsentNext]_vars

\* the chat page just loaded; no data grid is shown
ChatInit ==
  /\ ChatMounted
  /\ ExplorerMounted
  /\ runtime = DefaultRuntime
  /\ data = <<>>
  /\ maxRows = 0
  /\ showExport = FALSE
  /\ Mounted

ChatNext ==
  \/ \E text \in ChatTexts : setInputText(text)
  \/ handleSend
  \/ \E text \in ChatTexts : callSendMessage(text)
  \/ \E k \in 1..MaxMessages, response \in ApiResponses : receiveResponse(k, response)
  \/ \E k \in 1..MaxMessages, message \in ApiErrors : receiveError(k, message)
  \/ clearChat
  \/ \E messageId \in 0..(MaxTime + 1) : removeMessage(messageId)
  \/ tick

ChatSpec == ChatInit /\ [][ChatNext]_vars

\* the chat as the user of ChatPage drives it: the input box, the Send
\* button, the suggested queries and the Clear Chat button
ChatPageNext ==
  \/ \E text \in ChatTexts : setInputText(text)
  \/ \E suggestion \in ChatTexts : handleSuggestionClick(suggestion)
  \/ handleSend
  \/ \E k \in 1..MaxMessages, response \in ApiResponses : receiveResponse(k, response)
  \/ \E k \in 1..MaxMessages, message \in ApiErrors : receiveError(k, message)
  \/ handleClearChat
  \/ tick

ChatPageSpec == ChatInit /\ [][ChatPageNext]_vars

\* the API call that has been awaited longest resolves or rejects
replyToOldest ==
  \/ \E response \in ApiResponses : receiveResponse(1, response)
  \/ \E message \in ApiErrors : receiveError(1, message)

ChatLiveNext ==
  \/ \E text \in ChatTexts : callSendMessage(text)
  \/ \E k \in 1..MaxMessages, response \in ApiResponses : receiveResponse(k, response)
  \/ \E k \in 1..MaxMessages, message \in ApiErrors : receiveError(k, message)
  \/ clearChat
  \/ \E messageId \in 0..(MaxTime + 1) : removeMessage(messageId)
  \/ tick

\* the hook with an API whose every call ends: the HTTP client gives each
\* request 30 seconds, after which the call rejects
ChatLiveSpec == ChatInit /\ [][ChatLiveNext]_vars /\ WF_vars(replyToOldest)

\* the database explorer just opened, with its table list, its table loads
\* and its export buttons; its data grid is not modelled here
ExplorerInit ==
  /\ ExplorerMounted
  /\ runtime = DefaultRuntime
  /\ ChatMounted
  /\ data = <<>>
  /\ maxRows = 0
  /\ showExport = FALSE
  /\ Mounted

ExplorerNext ==
  \/ \E tableList \in {<<>>, TableNames} : loadTablesResolved(tableList)
  \/ loadTablesRejected
  \/ \E tableName \in {"A", "B"} : loadTableData(tableName)
  \/ \E k \in 1..MaxCalls : tableInfoResolved(k)
  \/ \E k \in 1..MaxCalls : tableInfoRejected(k)
  \/ handleExportCSV
  \/ handleExportJSON
  \/ \E format \in {"csv", "json"} : handleExportFullTable(format)
  \/ \E k \in 1..MaxExports : exportResolved(k)
  \/ \E k \in 1..MaxExports : exportRejected(k)

ExplorerSpec == ExplorerInit /\ [][ExplorerNext]_vars

\* the export of small datasets whose strings hold commas, quotes and newlines
CsvInit ==
  /\ data \in CsvDatasets
  /\ maxRows = 0
  /\ showExport = TRUE
  /\ Mounted
  /\ ChatMounted
  /\ ExplorerMounted
  /\ runtime = DefaultRuntime

CsvNext == \E format \in Formats : handleExport(format)

CsvSpec == CsvInit /\ [][CsvNext]_vars

----------------------------------------------------------------------------
(* Properties of the grid state, checked under Spec *)

\* a page navigation step: Previous, Next or a numbered page button
Navigation == previousPage \/ nextPage \/ \E page \in 1..MaxPage : setCurrentPage(page)

\* C1: whenever the data prop is replaced by a new dataset, the sort becomes
\* {none, ascending}, the page becomes 1 and the expanded cell is cleared,
\* whatever they were before the replacement.
C1_ReplacementResets ==
  [][data' # data =>
       /\ sortColumn' = NoColumn
       /\ sortDirection' = "asc"
       /\ currentPage' = 1
       /\ expandedCell' = NoCell]_vars

\* C2: in every state in which the grid is rendered (a non-empty dataset),
\* 1 <= currentPage <= ceil(visibleRowCount / pageSize).
C2_PageInRange ==
  ~isEmptyState => (1 <= currentPage /\ currentPage <= totalPages)

\* C3: no page navigation step leaves currentPage outside 1..totalPages.
\* (A navigation step changes currentPage alone, so totalPages is the same
\* before and after it.)
C3_NavigationInRange ==
  [][Navigation => (1 <= currentPage' /\ currentPage' <= totalPages)]_vars

\* C4: a sort click on the current sort column flips the direction and keeps
\* the column; a click on any other column selects it with direction
\* ascending, whatever the direction was.
C4_SortToggle ==
  [][\A column \in {"a", "b"} :
       handleSort(column) =>
         /\ sortColumn' = column
         /\ sortDirection' =
              (IF sortColumn # column THEN "asc"
               ELSE IF sortDirection = "asc" THEN "desc" ELSE "asc")]_vars

\* a second click on column b has flipped its direction to descending
C4_Witness == sortColumn = "b" /\ sortDirection = "desc"

\* C5: every sort click, flip or new column, sets currentPage to 1.
C5_SortResetsPage ==
  [][\A column \in {"a", "b"} : handleSort(column) => currentPage' = 1]_vars

\* a sorted grid of several pages standing on page 1
C5_Witness == sortColumn # NoColumn /\ totalPages > 1 /\ currentPage = 1

----------------------------------------------------------------------------
(* Properties of the derived rows, checked under SortSpec *)

\* the derived rows before the maxRows truncation
sortedRows == processedData(data, sortColumn, sortDirection, 0)

\* the value parses as a number
Parses(v) == ~IsNullish(v) /\ ~parseFloat(v).nan

\* in rows, no row null in the column precedes a row that is not
NullsLastIn(rows, column) ==
  \A i, j \in 1..Len(rows) :
    (i < j /\ IsNullish(Get(rows[i], column))) => IsNullish(Get(rows[j], column))

\* in rows, equal non-null values of the column are in dataset order (column a)
EqualsInOrder(rows, column) ==
  \A i, j \in 1..Len(rows) :
    (i < j /\ ~IsNullish(Get(rows[i], column))
           /\ Get(rows[i], column) = Get(rows[j], column))
      => rows[i].a.num < rows[j].a.num

\* in rows, the rows null in the column are in dataset order (column a)
NullsInOrder(rows, column) ==
  \A i, j \in 1..Len(rows) :
    (i < j /\ IsNullish(Get(rows[i], column)) /\ IsNullish(Get(rows[j], column)))
      => rows[i].a.num < rows[j].a.num

\* x before y is the numeric order of the direction
NumericallyOrdered(x, y, direction) ==
  IF direction = "asc" THEN x.v <= y.v ELSE x.v >= y.v

\* in rows, the values of the column that parse are in numeric order
NumbersInOrder(rows, column, direction) ==
  \A i, j \in 1..Len(rows) :
    (i < j /\ Parses(Get(rows[i], column)) /\ Parses(Get(rows[j], column)))
      => NumericallyOrdered(parseFloat(Get(rows[i], column)),
                            parseFloat(Get(rows[j], column)), direction)

\* C6: whenever a sort column is set, in either direction, every row that is
\* null in that column comes after every row that is not.
C6_NullsLast == sortColumn # NoColumn => NullsLastIn(sortedRows, sortColumn)

\* descending sort of <null, "9", null, ...>: the "9" row first, a null row last
C6_Witness ==
  /\ sortColumn = "b" /\ sortDirection = "desc"
  /\ Len(data) >= 3
  /\ IsNullish(data[1].b) /\ data[2].b = StrV(<<"9">>) /\ IsNullish(data[3].b)
  /\ sortedRows[1] = data[2]
  /\ IsNullish(sortedRows[Len(data)].b)

\* C7: rows with equal non-null values in the sort column keep the relative
\* order they have in the dataset, in either direction.
C7_Stable == sortColumn # NoColumn => EqualsInOrder(sortedRows, sortColumn)

\* C8: rows that are null in the sort column keep the relative order they have
\* in the dataset.
C8_NullsKeepOrder == sortColumn # NoColumn => NullsInOrder(sortedRows, sortColumn)

\* C9: two rows whose values both parse as numbers are in numeric order,
\* ascending or descending as the direction says ("9" before "10" ascending).
C9_NumericOrder ==
  sortColumn # NoColumn => NumbersInOrder(sortedRows, sortColumn, sortDirection)

\* ascending sort of <"10", "9">: the "9" row first
C9_Witness ==
  /\ sortColumn = "b" /\ sortDirection = "asc"
  /\ Len(data) = 2
  /\ data[1].b = StrV(<<"1", "0">>) /\ data[2].b = StrV(<<"9">>)
  /\ sortedRows = <<data[2], data[1]>>

\* visible is the first rows of sorted, at most limit of them
IsPrefixOfLength(visible, sorted, length) ==
  Len(visible) = length /\ visible = SubSeq(sorted, 1, length)

\* C10: with maxRows set, the visible rows are the first maxRows rows of the
\* sorted full dataset, and of the dataset itself when no sort column is set.
C10_TruncateAfterSort ==
  maxRows # 0 =>
    /\ IsPrefixOfLength(visibleRows, sortedRows, Min(maxRows, Len(data)))
    /\ sortColumn = NoColumn =>
         IsPrefixOfLength(visibleRows, data, Min(maxRows, Len(data)))

\* maxRows 2, ascending sort of <"a", "10", "9">: the "9" row, then the "10" row
C10_Witness ==
  /\ maxRows = 2
  /\ sortColumn = "b" /\ sortDirection = "asc"
  /\ Len(data) = 3
  /\ data[1].b = StrV(<<"a">>) /\ data[2].b = StrV(<<"1", "0">>)
  /\ data[3].b = StrV(<<"9">>)
  /\ visibleRows = <<data[3], data[2]>>

\* -1, 0 or 1 as the number is negative, zero or positive
Sign(order) == IF order < 0 THEN -1 ELSE IF order > 0 THEN 1 ELSE 0

\* the comparator gives opposite signs, or zero twice, to the two orders of
\* any two of the rows
IsAntisymmetric(rows, column, direction) ==
  \A i, j \in 1..Len(rows) :
    i < j =>
      Sign(comparator(rows[i], rows[j], column, direction))
        = -Sign(comparator(rows[j], rows[i], column, direction))

\* a row not after a second row that is not after a third is not after the
\* third
IsTransitive(rows, column, direction) ==
  \A i, j, k \in 1..Len(rows) :
    (comparator(rows[i], rows[j], column, direction) <= 0
       /\ comparator(rows[j], rows[k], column, direction) <= 0)
      => comparator(rows[i], rows[k], column, direction) <= 0

\* C24: for every dataset and either direction, the comparator of the sort
\* is a total order on the rows: compare(a, b) and compare(b, a) have
\* opposite signs or are both zero, and the relation is transitive (and the
\* sort produces a result, a permutation of the rows).
C24_TotalOrder ==
  sortColumn # NoColumn =>
    /\ Len(sortedRows) = Len(data)
    /\ IsAntisymmetric(data, sortColumn, sortDirection)
    /\ IsTransitive(data, sortColumn, sortDirection)

----------------------------------------------------------------------------
(* Properties of the export, checked under ExportSpec *)

\* the first maxRows rows of the dataset in its own order, all when unset
canonicalRows ==
  IF maxRows # 0 THEN SubSeq(data, 1, Min(maxRows, Len(data))) ELSE data

\* C11: whatever the sort column, the direction and the page are, an export
\* hands the exporter the first maxRows rows of the dataset in dataset order
\* (all rows when maxRows is unset): the same rows before and after any
\* sequence of sort clicks and page changes.
C11_ExportIgnoresView ==
  [][\A format \in Formats :
       handleExport(format) => download'.rows = canonicalRows]_vars

\* an export made of a grid sorted descending by b and standing on page 2:
\* the rows exported are the dataset, the rows shown are in another order
C11_Witness ==
  /\ download.made
  /\ sortColumn = "b" /\ sortDirection = "desc" /\ currentPage = 2
  /\ download.rows = data
  /\ visibleRows # data

----------------------------------------------------------------------------
(* Properties of the cell display and of the expanded cell, checked under   *)
(* Spec                                                                     *)

\* a string of more than 50 characters
IsLongString(value) == IsString(value) /\ Len(Chars(value)) > 50

\* text is the first 50 characters of the string followed by three dots
IsCutToFifty(text, value) ==
  /\ Len(text) = 53
  /\ \A i \in 1..53 : text[i] = (IF i <= 50 THEN Chars(value)[i] ELSE ".")

\* every long string of the cells is shown cut to 50 characters and the dots
LongCellsCut(cells) ==
  \A cell \in cells :
    IsLongString(cell.value) => IsCutToFifty(formatCellValue(cell.value), cell.value)

\* a click on one of the cells that hold a long string leaves that string
\* itself in the expanded cell
ClickKeepsOriginal(cells) ==
  \A cell \in cells :
    (IsLongString(cell.value)
       /\ handleCellClick(cell.value, cell.column, cell.rowIndex))
      => /\ expandedCell'.open
         /\ expandedCell'.value = cell.value
         /\ Len(Chars(expandedCell'.value)) = Len(Chars(cell.value))

\* C12: every string cell value of more than 50 characters is shown as its
\* first 50 characters followed by "...", and a click on that cell puts the
\* original string, of the same length and content, in the expanded cell.
\* (A click on a long string changes the expanded cell or changes nothing, so
\* the steps to look at are those that change the expanded cell.)
C12_TruncationRoundTrip ==
  /\ [](LongCellsCut(CellsOf(data, columns)))
  /\ [][expandedCell' # expandedCell => ClickKeepsOriginal(cellsShown)]_vars

\* the cell of the 60-character string expanded: 60 characters in the
\* expanded cell, 53 in the table
C12_Witness ==
  /\ expandedCell.open
  /\ expandedCell.value = RepV(60)
  /\ Len(Chars(expandedCell.value)) = 60
  /\ Len(formatCellValue(expandedCell.value)) = 53

\* no click on one of the cells that hold no long string changes the expanded
\* cell, the sort or the page
ShortClickIsNoOp(cells) ==
  \A cell \in cells :
    ~IsLongString(cell.value) =>
      ~ENABLED (/\ handleCellClick(cell.value, cell.column, cell.rowIndex)
                /\ <<expandedCell, sortColumn, sortDirection, currentPage>>'
                     # <<expandedCell, sortColumn, sortDirection, currentPage>>)

\* C13: a click on a cell whose value is not a string of more than 50
\* characters (null, a boolean, a number, a string of at most 50 characters)
\* leaves the expanded cell, the sort and the page as they are.
C13_ShortClickNoOp == ~isEmptyState => ShortClickIsNoOp(cellsShown)

\* the values v of the cells
ValuesOf(cells) == {cell.value : cell \in cells}

\* a sorted first page, a cell expanded, showing a null, a boolean, a number,
\* a short string and a string of exactly 50 characters to click on
C13_Witness ==
  /\ expandedCell.open
  /\ sortColumn = "a" /\ sortDirection = "asc" /\ currentPage = 1
  /\ {NullV, BoolV(TRUE), NumV(2), StrV(<<"9">>), RepV(50)} \subseteq ValuesOf(cellsShown)

\* a click on one of the cells that hold a long string opens the expanded
\* cell with the value, the column and the row index of that cell, whether
\* it was closed or open before
ClickOpens(cells) ==
  \A cell \in cells :
    (IsLongString(cell.value)
       /\ handleCellClick(cell.value, cell.column, cell.rowIndex))
      => expandedCell' = [open |-> TRUE, value |-> cell.value,
                          column |-> cell.column, rowIndex |-> cell.rowIndex]

\* the expanded cell changes only by a close and by a click on a long string
ChangesOnlyByClickOrClose(cells) ==
  expandedCell' # expandedCell =>
    \/ closeExpandedCell
    \/ \E cell \in cells :
         /\ IsLongString(cell.value)
         /\ handleCellClick(cell.value, cell.column, cell.rowIndex)

\* a click on any of the cells that hold a long string can be made and leaves
\* the payload of that cell in the expanded cell, closed or open before
CanOpen(cells) ==
  \A cell \in cells :
    IsLongString(cell.value) =>
      ENABLED (/\ handleCellClick(cell.value, cell.column, cell.rowIndex)
               /\ expandedCell' = [open |-> TRUE, value |-> cell.value,
                                   column |-> cell.column, rowIndex |-> cell.rowIndex])

\* C14: the expanded cell is closed initially; a click on a long string opens
\* it with the payload of that cell, replacing the payload when it is open
\* already; the Close button and the overlay close it whatever its payload;
\* no other step (sort, page change, new dataset) changes it.
C14_ExpandedCellMachine ==
  /\ expandedCell = NoCell
  /\ [](~isEmptyState => CanOpen(cellsShown))
  /\ [][expandedCell' # expandedCell =>
          /\ ClickOpens(cellsShown)
          /\ closeExpandedCell => expandedCell' = NoCell
          /\ ChangesOnlyByClickOrClose(cellsShown)]_vars

\* the cell of row 7 expanded on the unsorted first page
C14_Witness ==
  /\ expandedCell = [open |-> TRUE, value |-> RepV(60), column |-> "b", rowIndex |-> 6]
  /\ sortColumn = NoColumn /\ currentPage = 1

----------------------------------------------------------------------------
(* Properties of the empty state, checked under EmptySpec *)

\* the sort, the page, the expanded cell and the file exported
userState == <<sortColumn, sortDirection, currentPage, expandedCell, download>>

\* C22: while the dataset is empty (data.length === 0, and likewise a data
\* prop that is null or undefined, which the same tests catch) the visible
\* rows and the rows of the page are empty and none of the user actions (sort
\* click, page navigation, cell click, close, export) can be taken; no step
\* taken in the empty state changes the sort, the page or the expanded cell
\* or makes an export.
C22_EmptyState ==
  /\ [](isEmptyState =>
          /\ visibleRows = <<>>
          /\ currentData = <<>>
          /\ cellsShown = {}
          /\ ~ENABLED userAction)
  /\ [][isEmptyState => userState' = userState]_vars

\* the dataset replaced by the empty one under a grid sorted by b, standing
\* on page 2, with a cell expanded and an export made
C22_Witness ==
  /\ isEmptyState
  /\ sortColumn = "b" /\ currentPage = 2
  /\ expandedCell.open
  /\ download.made

----------------------------------------------------------------------------
(* Properties of the sort by a column no row has, checked under AbsentSpec *)

\* no row of the dataset has the column
IsAbsent(column) == \A i \in 1..Len(data) : column \notin OwnKeys(data[i])

\* C23: when the sort column is a column that no row of the dataset has, the
\* sort is made without error and changes nothing: the visible rows are the
\* rows of the dataset in dataset order (the first maxRows of them when
\* maxRows is set), ascending and descending alike.
C23_AbsentColumnSort ==
  (sortColumn # NoColumn /\ IsAbsent(sortColumn)) =>
    /\ visibleRows = canonicalRows
    /\ processedData(data, sortColumn, sortDirection, 0) = data

----------------------------------------------------------------------------
(* Properties of the CSV text, checked under CsvSpec *)

\* the text of the file downloadCSV makes of the rows it was called with
csvText == convertToCSV(download.rows)

\* the string holds a comma, a double quote or a newline
HasSpecial(str) == \E i \in 1..Len(str) : str[i] \in {Comma, Quote, Newline}

\* number of double quotes among the first i - 1 characters
QuotesBefore(str, i) == Cardinality({k \in 1..(i - 1) : str[k] = Quote})

\* text is str between two double quotes with each double quote of str twice
IsWrapped(text, str) ==
  /\ Len(text) = Len(str) + QuotesBefore(str, Len(str) + 1) + 2
  /\ text[1] = Quote
  /\ text[Len(text)] = Quote
  /\ \A i \in 1..Len(str) :
       /\ text[1 + i + QuotesBefore(str, i)] = str[i]
       /\ str[i] = Quote => text[2 + i + QuotesBefore(str, i)] = Quote

\* the fields of the string values of the rows are wrapped when the string
\* has a special character and the string itself when it has none
StringFieldsEscaped(rows) ==
  \A i \in 1..Len(rows) :
    IsString(rows[i].a) =>
      IF HasSpecial(Chars(rows[i].a))
      THEN IsWrapped(csvField(rows[i].a), Chars(rows[i].a))
      ELSE csvField(rows[i].a) = Chars(rows[i].a)

\* the file of a one-row dataset of the keys a and b, written in this order
\* or in the other: the header line, then the two fields
OneRowText(text, row) ==
  IF ObjectKeys(row) = <<"a", "b">>
  THEN text = <<"a", Comma, "b", Newline>> \o csvField(row.a) \o <<Comma>> \o csvField(row.b)
  ELSE text = <<"b", Comma, "a", Newline>> \o csvField(row.b) \o <<Comma>> \o csvField(row.a)

\* C15: in the CSV file a string field is escaped exactly when it holds a
\* comma, a double quote or a newline: it is then wrapped in double quotes
\* with each of its double quotes doubled; any other string field is the
\* string unchanged.
C15_CsvEscaping ==
  download.exporter = "downloadCSV" =>
    /\ StringFieldsEscaped(download.rows)
    /\ Len(download.rows) = 1 => OneRowText(csvText, download.rows[1])

\* Hello, "World" exported: "Hello, ""World"""
C15_Witness ==
  /\ download.exporter = "downloadCSV"
  /\ download.rows = <<[a |-> StrV(HelloWorld), b |-> NumV(12)]>>
  /\ csvText = <<"a", Comma, "b", Newline,
                 Quote, "H", "e", "l", "l", "o", Comma, " ", Quote, Quote,
                 "W", "o", "r", "l", "d", Quote, Quote, Quote, Comma, "1", "2">>

RECURSIVE ParseCsv(_, _, _, _, _, _)
\* the records of a CSV text read from position i on, each a sequence of
\* fields: a comma ends a field and a newline ends a record unless between
\* double quotes, and a doubled double quote between quotes is one quote
ParseCsv(text, i, quoted, field, record, records) ==
  IF i > Len(text) THEN Append(records, Append(record, field))
  ELSE IF quoted /\ text[i] = Quote /\ i < Len(text) /\ text[i + 1] = Quote
  THEN ParseCsv(text, i + 2, TRUE, Append(field, Quote), record, records)
  ELSE IF text[i] = Quote
  THEN ParseCsv(text, i + 1, ~quoted, field, record, records)
  ELSE IF ~quoted /\ text[i] = Comma
  THEN ParseCsv(text, i + 1, FALSE, <<>>, Append(record, field), records)
  ELSE IF ~quoted /\ text[i] = Newline
  THEN ParseCsv(text, i + 1, FALSE, <<>>, <<>>, Append(records, Append(record, field)))
  ELSE ParseCsv(text, i + 1, quoted, Append(field, text[i]), record, records)

\* the records of a CSV text
RecordsOf(text) == ParseCsv(text, 1, FALSE, <<>>, <<>>, <<>>)

\* the content of the field of a value: nothing for null and undefined, the
\* string form of any other value
FieldContent(value) == IF IsNullish(value) THEN <<>> ELSE ToStr(value)

\* the records are the header record of the column names, then one record
\* for each row in the order of the rows, with one field for each header
\* holding the value the row has under that header
RecordsAsClaimed(records, rows, headers) ==
  /\ Len(records) = 1 + Len(rows)
  /\ records[1] = [h \in 1..Len(headers) |-> <<headers[h]>>]
  /\ \A i \in 1..Len(rows) :
       /\ Len(records[i + 1]) = Len(headers)
       /\ \A h \in 1..Len(headers) :
            records[i + 1][h] = FieldContent(Get(rows[i], headers[h]))

\* the text begins with the column names joined by commas, alone on their line
StartsWithHeaderLine(text, headers) ==
  /\ Len(text) >= 2 * Len(headers)
  /\ \A h \in 1..Len(headers) :
       /\ text[2 * h - 1] = headers[h]
       /\ text[2 * h] = (IF h < Len(headers) THEN Comma ELSE Newline)

\* C21: the CSV text of a non-empty sequence of rows is the header line (the
\* keys of the first row in key order, joined by commas) followed by one
\* record for each row, in the order of the rows, each with one field for
\* each header; the field of a null or undefined value is empty.  (A record
\* is a line of the text; a newline inside a quoted field does not end it.)
C21_CsvStructure ==
  download.exporter = "downloadCSV" =>
    /\ StartsWithHeaderLine(csvText, ObjectKeys(download.rows[1]))
    /\ RecordsAsClaimed(RecordsOf(csvText), download.rows, ObjectKeys(download.rows[1]))

\* three rows exported, the second without the key b, the third with a key
\* the first row does not have and a newline in a field
C21_Witness ==
  /\ download.exporter = "downloadCSV"
  /\ Len(download.rows) = 3
  /\ DOMAIN download.rows[2] = {"a"}
  /\ csvText = <<"a", Comma, "b", Newline,
                 Quote, "a", Comma, Quote, Comma, "1", "2", Newline,
                 Comma, Newline,
                 Quote, Newline, Quote, Comma, "t", "r", "u", "e">>

----------------------------------------------------------------------------
(* Properties of the chat, checked under ChatSpec *)

\* C16: a sendMessage call with an empty or white-space-only text makes no
\* API request and leaves messages, isLoading and error as they are, and so
\* does the Send button on a blank input box.
C16_BlankNotSent ==
  /\ \A text \in ChatTexts :
       trim(text) = <<>> => ~ENABLED (callSendMessage(text) /\ hookVars' # hookVars)
  /\ trim(inputText) = <<>> => ~ENABLED (handleSend /\ hookVars' # hookVars)

\* a blank in the input box of a chat that shows an error and is not loading:
\* sending it would clear the error and start loading
C16_Witness ==
  /\ inputText = <<" ", "\r">>
  /\ error # NoError
  /\ ~isLoading
  /\ Len(messages) = 2
  /\ requests = <<>>

\* list is the first messages of longer, in the same order
IsPrefix(list, longer) ==
  Len(list) <= Len(longer) /\ list = SubSeq(longer, 1, Len(list))

\* a step of sendMessage or of the arrival of a reply
SendOrReply ==
  \/ \E text \in ChatTexts : callSendMessage(text)
  \/ handleSend
  \/ \E k \in 1..MaxMessages, response \in ApiResponses : receiveResponse(k, response)
  \/ \E k \in 1..MaxMessages, message \in ApiErrors : receiveError(k, message)

\* C17: sendMessage and the arrival of its reply, success or failure, only
\* append to messages (the list before the step is a prefix of the list after
\* it); a step that removes a message is a clearChat or a removeMessage.
C17_HistoryKept ==
  [][/\ SendOrReply => IsPrefix(messages, messages')
     /\ ~IsPrefix(messages, messages') =>
          (clearChat \/ \E messageId \in 0..(MaxTime + 1) : removeMessage(messageId))]_vars

\* two questions with their replies, the first answered, the second failed
C17_Witness ==
  /\ Len(messages) = 4
  /\ messages[1].type = "user" /\ messages[2].type = "ai"
  /\ messages[3].type = "user" /\ messages[4].type = "error"
  /\ requests = <<>>

\* no two messages of the list have the same id
DistinctIds(list) ==
  \A i, j \in 1..Len(list) : i # j => list[i].id # list[j].id

\* list with the message at position i left out
WithoutPosition(list, i) == SubSeq(list, 1, i - 1) \o SubSeq(list, i + 1, Len(list))

\* removing the id takes at most one message out of the list and leaves the
\* others in their order
RemovesAtMostOne(list, messageId) ==
  \/ WithoutId(list, messageId) = list
  \/ \E i \in 1..Len(list) : WithoutId(list, messageId) = WithoutPosition(list, i)

\* C29: after any sequence of sends and replies the messages of the list have
\* pairwise distinct ids, so that removeMessage(id) removes at most one
\* message and leaves the others in their order.
C29_DistinctIds ==
  /\ DistinctIds(messages)
  /\ \A messageId \in 0..(MaxTime + 1) : RemovesAtMostOne(messages, messageId)

----------------------------------------------------------------------------
(* Properties of the replies, checked under ChatLiveSpec *)

\* the last message of a list
LastOf(list) == list[Len(list)]

\* the step appends one message of one of the types and nothing else
AppendsOne(types) ==
  /\ Len(messages') = Len(messages) + 1
  /\ IsPrefix(messages, messages')
  /\ LastOf(messages').type \in types

\* a step that ends a request appends one reply, of type ai with the error
\* as it was or of type error with the failure text in error, and leaves
\* the loading state
ReplyRecorded ==
  Len(requests') < Len(requests) =>
    /\ Len(requests') = Len(requests) - 1
    /\ AppendsOne({"ai", "error"})
    /\ ~isLoading'
    /\ LastOf(messages').type = "ai" => error' = error
    /\ LastOf(messages').type = "error" =>
         /\ error' \in ApiErrors
         /\ LastOf(messages').content = <<"Sorry, I encountered an error: ", error'>>

\* a reply is appended only by a step that ends a request, and a request is
\* made only by a step that appends the user message and starts loading
OneReplyEach ==
  /\ (Len(messages') > Len(messages) /\ LastOf(messages').type \in {"ai", "error"})
       => Len(requests') = Len(requests) - 1
  /\ Len(requests') > Len(requests) =>
       /\ Len(requests') = Len(requests) + 1
       /\ AppendsOne({"user"})
       /\ isLoading'

\* C25: after a non-blank sendMessage the chat leaves the loading state:
\* isLoading leads to ~isLoading, and the request awaited longest is ended
\* again and again unless from some time on no request is awaited (a request
\* is behind those made before it, so each one is ended in its turn at the
\* latest); the step that ends a request, success or failure, sets
\* isLoading to false and appends exactly one reply, of type ai on success
\* and of type error on failure, error then holding the failure text.
C25_ReplyArrives ==
  /\ isLoading ~> ~isLoading
  /\ []<><<replyToOldest>>_vars \/ <>[](requests = <<>>)
  /\ [](isLoading => requests # <<>>)
  /\ [][ReplyRecorded /\ OneReplyEach]_vars

\* a question whose request has failed: the error message after it, the
\* failure text in error, not loading any more
C25_Witness ==
  /\ ~isLoading
  /\ requests = <<>>
  /\ Len(messages) = 2
  /\ messages[1].type = "user" /\ messages[2].type = "error"
  /\ error = "Failed to send message"
  /\ messages[2].content = <<"Sorry, I encountered an error: ", error>>

----------------------------------------------------------------------------
(* Properties of the chat page, checked under ChatPageSpec *)

\* the positions before i, or up to i, of the messages of one of the types
PositionsOf(list, i, types) == {k \in 1..i : list[k].type \in types}

\* C26: in every reachable state of the chat, also after a clearChat made
\* while a request is in flight, every ai or error message of the list has
\* before it the user message that it replies to: up to any reply there are
\* at least as many user messages before it as replies.
C26_ReplyAfterQuestion ==
  \A i \in 1..Len(messages) :
    messages[i].type \in {"ai", "error"} =>
      Cardinality(PositionsOf(messages, i - 1, {"user"}))
        >= Cardinality(PositionsOf(messages, i, {"ai", "error"}))

\* C27: through ChatPage at most one request is in flight at any time:
\* isLoading is true exactly while a request awaits its reply, a request is
\* started only by handleSend in a state where isLoading is false, and while
\* isLoading is true handleSend changes nothing.
C27_OneRequestInFlight ==
  /\ [](Len(requests) <= 1)
  /\ [](isLoading <=> requests # <<>>)
  /\ [](isLoading => ~ENABLED (handleSend /\ hookVars' # hookVars))
  /\ [][Len(requests') > Len(requests) => (~isLoading /\ isLoading' /\ handleSend)]_vars

\* a request in flight and a question in the input box (the chat cleared and
\* a suggested query clicked meanwhile): Send does nothing now
C27_Witness ==
  /\ isLoading
  /\ Len(requests) = 1
  /\ trim(inputText) # <<>>
  /\ messages = <<>>

----------------------------------------------------------------------------
(* Properties of the database explorer, checked under ExplorerSpec *)

\* the getTableInfo calls made so far, in the order of the clicks
tableCalls == apiCalls.getTableInfo

\* some table has been clicked and every call made has resolved
AllResolved ==
  /\ tableCalls # <<>>
  /\ \A k \in 1..Len(tableCalls) : tableCalls[k].state = "resolved"

\* a getTableInfo call awaits its reply
SomePending == \E k \in 1..Len(tableCalls) : tableCalls[k].state = "pending"

\* C28: when table A is clicked and then table B before the reply for A, then
\* once all the calls have resolved, in whatever order, selectedTable is the
\* table clicked last and tableData is the data of that table; and
\* tableLoading is true as long as a getTableInfo call is pending.
C28_LatestSelectionWins ==
  /\ AllResolved =>
       /\ explorer.selectedTable = LastOf(tableCalls).table
       /\ explorer.tableData = TableInfoOf(LastOf(tableCalls).table)
  /\ SomePending => explorer.tableLoading

\* the error of a failed loadTableData is set
TableLoadFailed ==
  explorer.error # Nothing /\ explorer.error[1] = "Failed to load table data: "

\* C30: a failed table load is recoverable: while the error of a failed
\* loadTableData is set a table of the list can still be clicked, and a
\* table load that succeeds after it clears the error and shows the data of
\* its table.
C30_FailedLoadRecoverable ==
  /\ []((TableLoadFailed /\ Len(tableCalls) < MaxCalls) =>
          \E tableName \in {"A", "B"} : ENABLED loadTableData(tableName))
  /\ [][\A k \in 1..MaxCalls :
          (TableLoadFailed /\ tableInfoResolved(k)) =>
            /\ explorer'.error = Nothing
            /\ explorer'.tableData = TableInfoOf(tableCalls[k].table)
            /\ explorer'.selectedTable = tableCalls[k].table]_vars

----------------------------------------------------------------------------
(* Properties of the pagination *)

\* pages is the least number of pages of rowsPerPage rows that hold length rows
IsCeiling(pages, length) ==
  /\ pages * rowsPerPage >= length
  /\ (pages - 1) * rowsPerPage < length \/ (pages = 0 /\ length = 0)

\* the rows of the page-th page of rows
PageAt(rows, page) ==
  [j \in 1..Min(rowsPerPage, Len(rows) - (page - 1) * rowsPerPage) |->
     rows[(page - 1) * rowsPerPage + j]]

\* every row of rows is on exactly one of the pages 1..pages, in its place
PagesPartition(rows, pages) ==
  /\ \A i \in 1..Len(rows) :
       \E page \in 1..pages :
         \E j \in 1..Len(PageAt(rows, page)) :
           (page - 1) * rowsPerPage + j = i /\ PageAt(rows, page)[j] = rows[i]
  /\ \A page \in 1..pages :
       Len(PageAt(rows, page)) >= 1 /\ Len(PageAt(rows, page)) <= rowsPerPage

\* shown is the page-th page of rows, empty past the last page
IsPageShown(shown, rows, page) ==
  IF (page - 1) * rowsPerPage >= Len(rows) THEN shown = <<>>
  ELSE shown = PageAt(rows, page)

\* C18: totalPages is ceil(visible rows / rowsPerPage), 0 for no visible row;
\* the rows shown are those of visibleRows from (currentPage - 1) * rowsPerPage
\* up to rowsPerPage further on; for 1 <= currentPage <= totalPages the page
\* has between 1 and rowsPerPage rows, and the pages 1..totalPages hold every
\* visible row once, in order.
C18_Paginate ==
  \A rows \in {visibleRows}, pages \in {totalPages}, shown \in {currentData} :
    /\ IsCeiling(pages, Len(rows))
    /\ IsPageShown(shown, rows, currentPage)
    /\ PagesPartition(rows, pages)

\* the third and last page of 21 rows sorted by b: one row
C18_Witness ==
  /\ sortColumn = "b"
  /\ totalPages = 3 /\ currentPage = 3
  /\ Len(currentData) = 1

\* the pages p of 1..pages that are the first, the last or within 2 of current
NearPages(pages, current) ==
  {p \in 1..pages : p = 1 \/ p = pages \/ (p - current) \in -2..2}

\* the items are buttons of exactly the pages wanted, in increasing order,
\* with an ellipsis before a button exactly when it follows a gap
ItemsAsClaimed(items, wanted) ==
  /\ {items[i].page : i \in 1..Len(items)} = wanted
  /\ Len(items) = Cardinality(wanted)
  /\ \A i \in 1..Len(items) :
       /\ i > 1 => items[i - 1].page < items[i].page
       /\ items[i].ellipsis <=> (i > 1 /\ items[i].page - items[i - 1].page > 1)

\* the numbered buttons are rendered for one page as for several: on every
\* grid the buttons are those of the pages p of 1..totalPages with p = 1,
\* p = totalPages or |p - currentPage| <= 2, so the button 1 on a grid of
\* one page
C19_ButtonsOnEveryGrid ==
  ItemsAsClaimed(pageControls, NearPages(totalPages, currentPage))

\* C19: on a grid of more than one page the numbered page buttons are exactly
\* the pages p of 1..totalPages with p = 1, p = totalPages or
\* |p - currentPage| <= 2, in increasing order, and an ellipsis is rendered
\* between two consecutive buttons exactly when their pages differ by more
\* than 1; on a grid of one page or of no row no numbered button and no
\* ellipsis is rendered.
C19_PageButtons ==
  /\ totalPages > 1 =>
       /\ ItemsAsClaimed(pageControls, NearPages(totalPages, currentPage))
       /\ pageButtons = NearPages(totalPages, currentPage)
  /\ totalPages <= 1 => pageControls = <<>>

\* page 5 of 9: the buttons 1 ... 3 4 5 6 7 ... 9
C19_Witness ==
  /\ totalPages = 9 /\ currentPage = 5
  /\ pageControls =
       <<[page |-> 1, ellipsis |-> FALSE], [page |-> 3, ellipsis |-> TRUE],
         [page |-> 4, ellipsis |-> FALSE], [page |-> 5, ellipsis |-> FALSE],
         [page |-> 6, ellipsis |-> FALSE], [page |-> 7, ellipsis |-> FALSE],
         [page |-> 9, ellipsis |-> TRUE]>>

\* the export with the format can be made, by the CSV exporter for "csv" and
\* by the JSON exporter for any other format
CanExport(format) ==
  ENABLED (/\ handleExport(format)
           /\ download'.made
           /\ download'.filename.extension = format
           /\ download'.exporter = (IF format = "csv" THEN "downloadCSV"
                                    ELSE "downloadJSON"))

\* C20: an export uses the CSV exporter if and only if the format is exactly
\* "csv"; any other format, a known or an unknown one, uses the JSON
\* exporter, and an export is made for every format value.
C20_CsvOnlyForCsv ==
  /\ []((~isEmptyState /\ showExport) => \A format \in Formats : CanExport(format))
  /\ [][\A format \in Formats :
          handleExport(format) =>
            /\ download'.made
            /\ download'.filename.extension = format
            /\ download'.exporter = "downloadCSV" <=> format = "csv"
            /\ download'.exporter = "downloadJSON" <=> format # "csv"]_vars

\* an export with the format "xml" made by the JSON exporter
C20_Witness ==
  /\ download.made
  /\ download.filename.extension = "xml"
  /\ download.exporter = "downloadJSON"

====
